---- MODULE Spec2Model ----
(***************************************************************************)
(* Resource governance and execution safety layer of Lyra-Ai-Mark2:        *)
(*   TaskQueue        src/server/core/task_queue.py                        *)
(*   CacheManager     src/server/core/managers/cache_manager.py            *)
(*   FallbackManager  src/server/core/managers/fallback_manager.py         *)
(*   MemoryWatchdog   src/server/core/memory_watchdog.py                   *)
(*   WorkerWatchdog   src/ai-worker/core/worker_watchdog.py                *)
(* The five components share no state, so each has its own specification   *)
(* (SpecTQ, SpecCM, SpecFB, SpecMW, SpecWW) over the variables below; the   *)
(* variables of the other components stay at their constructed values.     *)
(***************************************************************************)
EXTENDS Integers, Sequences, FiniteSets, TLC

VARIABLES
    \* ---- TaskQueue
    queue,      \* self._queue: the heap array of TaskItem records
    waiters,    \* the condition's FIFO of consumers blocked in wait()
    cpc,        \* per consumer: position inside get_next_task
    cdeadline,  \* per consumer: time at which its wait(timeout) gives up, or NoDeadline
    nextId,     \* number of submit calls made so far (the next task id)
    tqNow,      \* time.time() as seen by the queue
    \* ---- CacheManager
    disk,       \* the cache directory: top-level entry -> size and access time
    items,      \* self._items: entry -> CacheItem
    pinHeld,    \* entries whose pin_model returned True and that were not unpinned since
    cmNow,      \* time.time() as seen by the cache manager
    \* ---- FallbackManager
    circuits,   \* self._circuits: target -> CircuitState
    lockHolder, \* self._lock: the caller thread that holds it, or NoThread
    tpc,        \* per caller thread: position inside execute_with_fallback
    tchain,     \* per caller thread: model_chain of its call
    ti,         \* per caller thread: index of the candidate at hand (1-based)
    tlast,      \* per caller thread: last_error
    fbCalls,    \* number of execute_with_fallback calls started
    fbNow,      \* time.time() as seen by the fallback manager
    \* ---- MemoryWatchdog
    mwRunning,  \* self._running
    mwEnabled,  \* self.enabled
    mwLoops,    \* the monitor threads created by start(), in order of creation:
                \* position in _monitor_loop, sampled percent, and for the sample at
                \* hand whether it is an upward crossing and how often each callback ran
    softTrig,   \* self._soft_limit_triggered
    hardTrig,   \* self._hard_limit_triggered
    peak,       \* self._peak_usage
    lastSample, \* the sample polled last, by any loop (0 before the first)
    polls,      \* number of samples polled so far
    yaml,       \* what config_manager.load_yaml("memory_watchdog.yaml") gives from_config
    total_ram_gb, \* psutil.virtual_memory().total / 1024**3
    made,       \* the MemoryWatchdog that from_config returned, if it was called
    \* ---- WorkerWatchdog
    workers,    \* self._workers: the dict, in insertion order, of (worker id, WorkerInfo object)
    objs,       \* the WorkerInfo objects that the dict or a monitor thread still refers to
    wwRunning,  \* self._running
    monitors,   \* the monitor threads created by start(), in order of creation
    timers,     \* the threading.Timer cleanups that have not fired yet
    registering,\* ids of the outside register_worker calls that passed the limit
                \* test and have not stored their WorkerInfo yet
    wwCalls,    \* number of calls made from outside so far
    wwNow,      \* datetime.utcnow() / time.time() as seen by the worker watchdog
    \* ---- the last completed operation of the component under study and
    \* ---- what it returned (history variable; the program has no such field)
    ev

tqVars == <<queue, waiters, cpc, cdeadline, nextId, tqNow>>
cmVars == <<disk, items, pinHeld, cmNow>>
fbVars == <<circuits, lockHolder, tpc, tchain, ti, tlast, fbCalls, fbNow>>
fcVars == <<yaml, total_ram_gb, made>>
mwVars == <<mwRunning, mwEnabled, mwLoops, softTrig, hardTrig, peak, lastSample, polls, fcVars>>
wwVars == <<workers, objs, wwRunning, monitors, timers, registering, wwCalls, wwNow>>
vars == <<tqVars, cmVars, fbVars, mwVars, wwVars, ev>>

\* what the operations of one component leave alone
tqOthers == <<cmVars, fbVars, mwVars, wwVars>>
cmOthers == <<tqVars, fbVars, mwVars, wwVars>>
fbOthers == <<tqVars, cmVars, mwVars, wwVars>>
mwOthers == <<tqVars, cmVars, fbVars, wwVars, fcVars, ev>>
wwOthers == <<tqVars, cmVars, fbVars, mwVars, ev>>

(***************************************************************************)
(* TaskQueue                                                               *)
(***************************************************************************)

\* Priority(IntEnum)
CRITICAL == 0
HIGH == 1
NORMAL == 2
LOW == 3
Priority == {CRITICAL, HIGH, NORMAL, LOW}

\* TaskQueue(max_size, starvation_threshold_sec)
max_size == 3
starvation_threshold == 1

\* bounds of the queue model
MaxSubmits == 4
MaxTime == 3
NumConsumers == 2
WaitTimeout == 1

Consumers == 1..NumConsumers
NoDeadline == -1

\* @dataclass(order=True) TaskItem: only priority and timestamp take part in
\* comparisons (task_id, func, args, kwargs, created_at are compare=False).
TaskItem(p, ts, id, created) ==
    [priority |-> p, timestamp |-> ts, task_id |-> id, created_at |-> created]

\* TaskItem.__lt__ : tuple comparison of (priority, timestamp)
ItemLt(a, b) ==
    \/ a.priority < b.priority
    \/ a.priority = b.priority /\ a.timestamp < b.timestamp

\* heap[i] with Python's 0-based index
At(heap, i) == heap[i + 1]

Swap(heap, i, j) ==
    [heap EXCEPT ![i + 1] = heap[j + 1], ![j + 1] = heap[i + 1]]

\* heapq._siftdown(heap, startpos, pos): move heap[pos] towards the root while
\* it is smaller than its parent.
RECURSIVE SiftDown(_, _, _)
SiftDown(heap, startpos, pos) ==
    IF pos > startpos
    THEN LET parentpos == (pos - 1) \div 2
         IN  IF ItemLt(At(heap, pos), At(heap, parentpos))
             THEN SiftDown(Swap(heap, pos, parentpos), startpos, parentpos)
             ELSE heap
    ELSE heap

\* first loop of heapq._siftup: bubble the smaller child up until a leaf is
\* reached; yields the heap and the leaf position.
RECURSIVE BubbleToLeaf(_, _)
BubbleToLeaf(heap, pos) ==
    LET endpos == Len(heap)
        left == 2 * pos + 1
        right == left + 1
    IN  IF left < endpos
        THEN LET childpos ==
                    IF right < endpos /\ ~ItemLt(At(heap, left), At(heap, right))
                    THEN right ELSE left
             IN  BubbleToLeaf(Swap(heap, pos, childpos), childpos)
        ELSE <<heap, pos>>

\* heapq._siftup(heap, pos)
SiftUp(heap, pos) ==
    LET r == BubbleToLeaf(heap, pos)
    IN  SiftDown(r[1], pos, r[2])

\* heapq.heapify(x): for i in reversed(range(n // 2)): _siftup(x, i)
RECURSIVE HeapifyFrom(_, _)
HeapifyFrom(heap, i) ==
    IF i < 0 THEN heap ELSE HeapifyFrom(SiftUp(heap, i), i - 1)

Heapify(heap) == HeapifyFrom(heap, (Len(heap) \div 2) - 1)

\* list.append in place of heappush: the new item is not sifted
HeapPushNoSift(heap, item) == Append(heap, item)

\* heapq.heappush(heap, item)
HeapPush(heap, item) ==
    SiftDown(Append(heap, item), 0, Len(heap))

\* self._queue[0] in place of heappop: the smallest item is returned and stays
HeapPopPeek(heap) == <<heap[1], heap>>

\* heapq.heappop(heap) on a non-empty heap: <<returned item, remaining heap>>
HeapPop(heap) ==
    LET lastelt == heap[Len(heap)]
        rest == SubSeq(heap, 1, Len(heap) - 1)
    IN  IF rest # <<>>
        THEN <<rest[1], SiftUp([rest EXCEPT ![1] = lastelt], 0)>>
        ELSE <<lastelt, rest>>

\* del self._queue[idx]  (0-based idx)
DelAt(heap, idx) ==
    SubSeq(heap, 1, idx) \o SubSeq(heap, idx + 2, Len(heap))

\* a scan that prefers the older of two items of the same priority
RECURSIVE LowestScanOldest(_, _)
LowestScanOldest(heap, n) ==
    IF n = 0 THEN <<-1, -1>>
    ELSE LET prev == LowestScanOldest(heap, n - 1)
             i == n - 1
             item == At(heap, i)
         IN  IF item.priority > prev[2]
             THEN <<i, item.priority>>
             ELSE IF item.priority = prev[2]
                     /\ item.timestamp < At(heap, prev[1]).timestamp
                  THEN <<i, prev[2]>>
                  ELSE prev

\* the scan of _drop_lowest_priority: <<lowest_idx, lowest_prio>> after looking
\* at the first n items
RECURSIVE LowestScan(_, _)
LowestScan(heap, n) ==
    IF n = 0 THEN <<-1, -1>>
    ELSE LET prev == LowestScan(heap, n - 1)
             i == n - 1
             item == At(heap, i)
         IN  IF item.priority > prev[2]
             THEN <<i, item.priority>>
             ELSE IF item.priority = prev[2]
                     /\ item.timestamp > At(heap, prev[1]).timestamp
                  THEN <<i, prev[2]>>
                  ELSE prev

\* an eviction that also takes HIGH items
DropLowestPriorityAlsoHigh(heap) ==
    IF heap = <<>> THEN <<FALSE, heap>>
    ELSE LET s == LowestScan(heap, Len(heap))
         IN  IF s[1] # -1 /\ s[2] >= HIGH
             THEN <<TRUE, Heapify(DelAt(heap, s[1]))>>
             ELSE <<FALSE, heap>>

\* TaskQueue._drop_lowest_priority: <<dropped?, queue afterwards>>
DropLowestPriority(heap) ==
    IF heap = <<>> THEN <<FALSE, heap>>
    ELSE LET s == LowestScan(heap, Len(heap))
         IN  IF s[1] # -1 /\ s[2] > HIGH
             THEN <<TRUE, Heapify(DelAt(heap, s[1]))>>
             ELSE <<FALSE, heap>>

\* a boost that stamps the boosted item with the time of the boost
BoostedRestamped(heap, now) ==
    [i \in 1..Len(heap) |->
        IF heap[i].priority > HIGH /\ now - heap[i].created_at > starvation_threshold
        THEN [heap[i] EXCEPT !.priority = HIGH, !.timestamp = now]
        ELSE heap[i]]

\* a boost that lifts the starving items to CRITICAL
BoostedToCritical(heap, now) ==
    [i \in 1..Len(heap) |->
        IF heap[i].priority > HIGH /\ now - heap[i].created_at > starvation_threshold
        THEN [heap[i] EXCEPT !.priority = CRITICAL]
        ELSE heap[i]]

\* the loop of _handle_starvation: item.priority = HIGH for every NORMAL/LOW
\* item older than the threshold (timestamp kept)
Boosted(heap, now) ==
    [i \in 1..Len(heap) |->
        IF heap[i].priority > HIGH /\ now - heap[i].created_at > starvation_threshold
        THEN [heap[i] EXCEPT !.priority = HIGH]
        ELSE heap[i]]

\* TaskQueue._handle_starvation
HandleStarvation(heap, now) ==
    LET b == Boosted(heap, now)
    IN  IF b # heap THEN Heapify(b) ELSE heap

\* Condition.notify(): release the first blocked waiter, if any
NotifyOne ==
    IF waiters # <<>>
    THEN /\ waiters' = Tail(waiters)
         /\ cpc' = [cpc EXCEPT ![Head(waiters)] = "woken"]
    ELSE UNCHANGED <<waiters, cpc>>

\* a capacity test that lets one item too many in
QueueFullOffByOne(q) == Len(q) > max_size

\* submit line 74: len(self._queue) >= self.max_size
QueueFull(q) == Len(q) >= max_size

\* TaskQueue.submit(priority, task_id, func); ev.full tells whether the call
\* found the queue at capacity
Submit(p) ==
    /\ nextId < MaxSubmits
    /\ nextId' = nextId + 1
    /\ LET full == QueueFull(queue)
           d == DropLowestPriority(queue)
           item == TaskItem(p, tqNow, nextId, tqNow)
       IN  IF full /\ p > HIGH
           THEN /\ UNCHANGED <<queue, waiters, cpc>>
                /\ ev' = [op |-> "submit", who |-> nextId, arg |-> p, ret |-> FALSE,
                          full |-> full]
           ELSE IF full /\ ~d[1]
           THEN /\ UNCHANGED <<queue, waiters, cpc>>
                /\ ev' = [op |-> "submit", who |-> nextId, arg |-> p, ret |-> FALSE,
                          full |-> full]
           ELSE /\ queue' = HeapPush(IF full THEN d[2] ELSE queue, item)
                /\ NotifyOne
                /\ ev' = [op |-> "submit", who |-> nextId, arg |-> p, ret |-> TRUE,
                          full |-> full]
    /\ UNCHANGED <<cdeadline, tqNow, tqOthers>>

\* get_next_task lines 152-162 with the lock held and the queue non-empty:
\* starvation sweep, then heappop.  ev.ret is <<item>>; ev.arg is the caller's
\* wait deadline and the time of the return; ev.boosted are the ids of the
\* tasks this sweep promoted.
SweepAndPop(c) ==
    LET swept == HandleStarvation(queue, tqNow)
        r == HeapPop(swept)
    IN  /\ queue' = r[2]
        /\ ev' = [op |-> "get", who |-> c, arg |-> <<cdeadline[c], tqNow>>,
                  ret |-> <<r[1]>>,
                  boosted |-> {queue[i].task_id : i \in
                                  {j \in 1..Len(queue) : Boosted(queue, tqNow)[j] # queue[j]}}]

\* get_next_task returns None (line 150)
ReturnNone(c) ==
    /\ ev' = [op |-> "get", who |-> c, arg |-> <<cdeadline[c], tqNow>>,
              ret |-> <<>>, boosted |-> {}]
    /\ UNCHANGED queue

\* get_next_task(timeout) up to the wait: with the queue empty the caller
\* blocks in self._condition.wait(timeout); otherwise it pops at once.
\* hasTimeout = FALSE is timeout=None.
GetNextTask(c, hasTimeout) ==
    /\ cpc[c] = "idle"
    /\ IF queue = <<>>
       THEN /\ waiters' = Append(waiters, c)
            /\ cpc' = [cpc EXCEPT ![c] = "waiting"]
            /\ cdeadline' = [cdeadline EXCEPT ![c] =
                                IF hasTimeout THEN tqNow + WaitTimeout ELSE NoDeadline]
            /\ UNCHANGED <<queue, ev>>
       ELSE /\ SweepAndPop(c)
            /\ UNCHANGED <<waiters, cpc, cdeadline>>
    /\ UNCHANGED <<nextId, tqNow, tqOthers>>

\* Condition.wait(timeout) gives up: the waiter leaves the FIFO and goes on to
\* re-acquire the lock.
WaitTimesOut(c) ==
    /\ cpc[c] = "waiting"
    /\ cdeadline[c] # NoDeadline
    /\ tqNow >= cdeadline[c]
    /\ waiters' = SelectSeq(waiters, LAMBDA w: w # c)
    /\ cpc' = [cpc EXCEPT ![c] = "woken"]
    /\ UNCHANGED <<queue, cdeadline, nextId, tqNow, ev, tqOthers>>

\* get_next_task after wait() returned and the lock is held again (line 149):
\* "if not self._queue: return None", else sweep and pop.
GetAfterWait(c) ==
    /\ cpc[c] = "woken"
    /\ cpc' = [cpc EXCEPT ![c] = "idle"]
    /\ cdeadline' = [cdeadline EXCEPT ![c] = NoDeadline]
    /\ IF queue = <<>> THEN ReturnNone(c) ELSE SweepAndPop(c)
    /\ UNCHANGED <<waiters, nextId, tqNow, tqOthers>>

\* time passes
TickTQ ==
    /\ tqNow < MaxTime
    /\ tqNow' = tqNow + 1
    /\ UNCHANGED <<queue, waiters, cpc, cdeadline, nextId, ev, tqOthers>>

TQInit ==
    /\ queue = <<>>
    /\ waiters = <<>>
    /\ cpc = [c \in Consumers |-> "idle"]
    /\ cdeadline = [c \in Consumers |-> NoDeadline]
    /\ nextId = 0
    /\ tqNow = 0

NextTQ ==
    \/ \E p \in Priority : Submit(p)
    \/ \E c \in Consumers, hasTimeout \in BOOLEAN : GetNextTask(c, hasTimeout)
    \/ \E c \in Consumers : WaitTimesOut(c)
    \/ \E c \in Consumers : GetAfterWait(c)
    \/ TickTQ

(***************************************************************************)
(* CacheManager                                                            *)
(***************************************************************************)

\* CacheManager(cache_dir, max_cache_bytes, min_free_bytes)
max_cache_bytes == 4

\* bounds of the cache model
MaxItemSize == 2
MaxRequired == 5
CMMaxTime == 1

\* names of the top-level entries that may appear under cache_dir
CacheIds == {"model_a", "model_b", "model_c"}
Reasons == {"user_request"}
NoReason == "None"

\* a function without the entry k  (del d[k])
Without(f, k) == [i \in DOMAIN f \ {k} |-> f[i]]

\* a function with the entry k set to v  (d[k] = v)
With(f, k, v) == [i \in DOMAIN f \cup {k} |-> IF i = k THEN v ELSE f[i]]

\* CacheItem(path, size_bytes, last_accessed, pinned, pin_reason)
CacheItem(size, accessed, pinned, reason) ==
    [size_bytes |-> size, last_accessed |-> accessed,
     pinned |-> pinned, pin_reason |-> reason]

\* what the cache directory can hold under one top-level name: a regular file
\* or a directory with files in it (files, with their total size), or a
\* directory tree without any regular file
DiskEntry(size, atime, files) == [size |-> size, atime |-> atime, files |-> files]

\* _scan_cache lines 68-69: rglob("*") filtered by entry.is_file() only comes
\* by the top-level names that hold at least one regular file
Scanned(d) == {id \in DOMAIN d : d[id].files}

\* a scan that does not look at the old map
ScanCacheForgetPins(d, old) ==
    [id \in Scanned(d) |-> CacheItem(d[id].size, d[id].atime, FALSE, NoReason)]

\* CacheManager._scan_cache: one item per top-level name that rglob finds a
\* file under, size and access time from the file system, pin state restored
\* from the old map
ScanCache(d, old) ==
    [id \in Scanned(d) |->
        IF id \in DOMAIN old
        THEN CacheItem(d[id].size, d[id].atime, old[id].pinned, old[id].pin_reason)
        ELSE CacheItem(d[id].size, d[id].atime, FALSE, NoReason)]

RECURSIVE SumSizes(_, _)
SumSizes(its, S) ==
    IF S = {} THEN 0
    ELSE LET x == CHOOSE y \in S : TRUE
         IN  its[x].size_bytes + SumSizes(its, S \ {x})

\* CacheManager.get_current_usage
CurrentUsage(its) == SumSizes(its, DOMAIN its)

\* sum(i.size_bytes for i in self._items.values() if i.pinned)
PinnedUsage(its) == SumSizes(its, {id \in DOMAIN its : its[id].pinned})

\* an eviction filter that forgets the pinned flag
EvictableIgnoringPins(its) == DOMAIN its

\* ensure_space lines 199-202: the items that are not pinned
Evictable(its) == {id \in DOMAIN its : ~its[id].pinned}

\* a sort that leaves the candidates in any order
LruOrdersUnsorted(its) ==
    LET E == Evictable(its)
        n == Cardinality(E)
    IN  {o \in [1..n -> E] : \A i, j \in 1..n : i # j => o[i] # o[j]}

\* ensure_space line 205: the orders evictable.sort(key=last_accessed) can
\* produce (the sort is stable, ties keep the directory listing order of the
\* last scan, which is arbitrary)
LruOrders(its) ==
    LET E == Evictable(its)
        n == Cardinality(E)
    IN  {o \in [1..n -> E] :
            /\ \A i, j \in 1..n : i # j => o[i] # o[j]
            /\ \A i \in 1..(n - 1) :
                  its[o[i]].last_accessed <= its[o[i + 1]].last_accessed}

\* a loop that gives up at the first deletion that raises
RECURSIVE EvictLoopAbort(_, _, _, _, _, _, _)
EvictLoopAbort(its, d, order, k, needed, fail, st) ==
    IF k > Len(order) \/ st.freed >= needed THEN st
    ELSE LET id == order[k]
         IN  IF id \in fail \/ id \notin DOMAIN d
             THEN [st EXCEPT !.failed = @ \cup {id}]
             ELSE EvictLoopAbort(its, d, order, k + 1, needed, fail,
                                 [st EXCEPT !.freed = @ + its[id].size_bytes,
                                            !.gone = @ \cup {id}])

\* ensure_space lines 210-228: the loop over the candidates from position k on.
\* st = [freed, gone, failed]: bytes freed, entries deleted, entries whose
\* deletion raised.  A deletion raises for the entries in fail and for an
\* entry that is not on disk.
RECURSIVE EvictLoop(_, _, _, _, _, _, _)
EvictLoop(its, d, order, k, needed, fail, st) ==
    IF k > Len(order) \/ st.freed >= needed THEN st
    ELSE LET id == order[k]
         IN  IF id \in fail \/ id \notin DOMAIN d
             THEN EvictLoop(its, d, order, k + 1, needed, fail,
                            [st EXCEPT !.failed = @ \cup {id}])
             ELSE EvictLoop(its, d, order, k + 1, needed, fail,
                            [st EXCEPT !.freed = @ + its[id].size_bytes,
                                       !.gone = @ \cup {id}])

\* a final test that is content with one byte less than was needed
EnoughFreedLenient(freed, needed) == freed >= needed - 1

\* a final test that demands more than was needed
EnoughFreedStrict(freed, needed) == freed > needed

\* ensure_space line 230: if freed >= needed
EnoughFreed(freed, needed) == freed >= needed

\* what the eviction loop of ensure_space can come to for a shortfall of
\* needed bytes: every LRU order the sort can give, every set of deletions
\* that raise
EvictOutcomes(its, d, needed) ==
    {EvictLoop(its, d, order, 1, needed, fail,
               [freed |-> 0, gone |-> {}, failed |-> {}]) :
        order \in LruOrders(its), fail \in SUBSET Evictable(its)}

\* CacheManager.ensure_space(required_bytes)
EnsureSpace(n) ==
    LET available == max_cache_bytes - CurrentUsage(items)
        needed == n - available
    IN  IF available >= n
        THEN /\ ev' = [op |-> "ensure_space", arg |-> n, ret |-> TRUE,
                       evicted |-> {}, failed |-> {}]
             /\ UNCHANGED <<disk, items>>
        ELSE \E st \in EvictOutcomes(items, disk, needed) :
                /\ items' = [id \in DOMAIN items \ st.gone |-> items[id]]
                /\ disk' = [id \in DOMAIN disk \ st.gone |-> disk[id]]
                /\ ev' = [op |-> "ensure_space", arg |-> n,
                          ret |-> EnoughFreed(st.freed, needed),
                          evicted |-> st.gone, failed |-> st.failed]

EnsureSpaceCall(n) ==
    /\ EnsureSpace(n)
    /\ UNCHANGED <<pinHeld, cmNow, cmOthers>>

\* CacheManager._scan_cache called again after construction
Rescan ==
    /\ items' = ScanCache(disk, items)
    /\ ev' = [op |-> "scan", found |-> Scanned(disk) \ DOMAIN items]
    /\ UNCHANGED <<disk, pinHeld, cmNow, cmOthers>>

\* the process restarts: a new CacheManager is constructed over the same
\* directory, its _items starts empty and the constructor scans
NewCacheManager ==
    /\ items' = ScanCache(disk, <<>>)
    /\ pinHeld' = {}
    /\ ev' = [op |-> "new"]
    /\ UNCHANGED <<disk, cmNow, cmOthers>>

\* CacheManager.pin_model(model_id, reason)
PinModel(id, reason) ==
    /\ IF id \in DOMAIN items
       THEN /\ items' = [items EXCEPT ![id].pinned = TRUE, ![id].pin_reason = reason]
            /\ pinHeld' = pinHeld \cup {id}
            /\ ev' = [op |-> "pin", arg |-> id, ret |-> TRUE]
       ELSE /\ ev' = [op |-> "pin", arg |-> id, ret |-> FALSE]
            /\ UNCHANGED <<items, pinHeld>>
    /\ UNCHANGED <<disk, cmNow, cmOthers>>

\* CacheManager.unpin_model(model_id)
UnpinModel(id) ==
    /\ IF id \in DOMAIN items
       THEN items' = [items EXCEPT ![id].pinned = FALSE, ![id].pin_reason = NoReason]
       ELSE UNCHANGED items
    /\ pinHeld' = pinHeld \ {id}
    /\ ev' = [op |-> "unpin"]
    /\ UNCHANGED <<disk, cmNow, cmOthers>>

\* an is_pinned that takes an unknown key for pinned
IsPinnedUnknownPinned(its, id) ==
    IF id \in DOMAIN its THEN its[id].pinned ELSE TRUE

\* CacheManager.is_pinned lines 159-162
IsPinned(its, id) ==
    IF id \in DOMAIN its THEN its[id].pinned ELSE FALSE

\* CacheManager.is_pinned(model_id)
IsPinnedCall(id) ==
    /\ ev' = [op |-> "is_pinned", arg |-> id, ret |-> IsPinned(items, id)]
    /\ UNCHANGED <<disk, items, pinHeld, cmNow, cmOthers>>

\* CacheManager.touch_model(model_id): last_accessed = time.time() and
\* os.utime(path) (which fails silently for a missing path)
TouchModel(id) ==
    /\ id \in DOMAIN items
    /\ items' = [items EXCEPT ![id].last_accessed = cmNow]
    /\ disk' = IF id \in DOMAIN disk THEN [disk EXCEPT ![id].atime = cmNow] ELSE disk
    /\ ev' = [op |-> "touch"]
    /\ UNCHANGED <<pinHeld, cmNow, cmOthers>>

\* a caller writes a new artifact under cache_dir (test_cache_manager writes
\* model_c.bin after construction), or makes a directory there that holds no
\* file yet (size 0)
WriteArtifact(id, size) ==
    /\ id \notin DOMAIN disk
    /\ disk' = With(disk, id, DiskEntry(size, cmNow, size > 0))
    /\ ev' = [op |-> "write"]
    /\ UNCHANGED <<items, pinHeld, cmNow, cmOthers>>

TickCM ==
    /\ cmNow < CMMaxTime
    /\ cmNow' = cmNow + 1
    /\ UNCHANGED <<disk, items, pinHeld, ev, cmOthers>>

\* the cache manager of a process that does not use it: empty directory
CMIdle ==
    /\ disk = <<>>
    /\ items = <<>>
    /\ pinHeld = {}
    /\ cmNow = 0

\* CacheManager.__init__ over a directory that already holds some entries:
\* the constructor scans it
CMInit ==
    /\ \E S \in SUBSET CacheIds :
          disk \in [S -> {DiskEntry(size, 0, size > 0) : size \in 0..MaxItemSize}]
    /\ items = ScanCache(disk, <<>>)
    /\ pinHeld = {}
    /\ cmNow = 0

NextCM ==
    \/ \E n \in 0..MaxRequired : EnsureSpaceCall(n)
    \/ Rescan
    \/ NewCacheManager
    \/ \E id \in CacheIds, reason \in Reasons : PinModel(id, reason)
    \/ \E id \in CacheIds : UnpinModel(id)
    \/ \E id \in CacheIds : IsPinnedCall(id)
    \/ \E id \in CacheIds : TouchModel(id)
    \/ \E id \in CacheIds, size \in 0..MaxItemSize : WriteArtifact(id, size)
    \/ TickCM

(***************************************************************************)
(* FallbackManager                                                         *)
(***************************************************************************)

\* FallbackManager(failure_threshold, cooldown_seconds, reset_interval_seconds)
failure_threshold == 2
cooldown_seconds == 2
reset_interval == 1

\* bounds of the fallback model
NumThreads == 2
MaxCalls == 3
FBMaxTime == 3

\* time.time() at construction: far enough from CircuitState's initial
\* last_failure_time of 0 that "now - 0 > reset_interval" holds, as it does
\* for any real clock
FBEpoch == reset_interval + 1

Threads == 1..NumThreads
Targets == {"A", "B"}
Chains == {<<"A">>, <<"A", "B">>, <<"B", "A">>}
NoError == "None"
TypeError == "TypeError"

\* CircuitState(failures, last_failure_time, is_open, open_until)
CircuitState(f, lft, open, until) ==
    [failures |-> f, last_failure_time |-> lft, is_open |-> open, open_until |-> until]

\* FallbackManager._get_circuit: the map after the lookup (a missing entry is
\* created as CircuitState(0, 0, False, 0))
GetCircuit(cs, m) ==
    IF m \in DOMAIN cs THEN cs ELSE With(cs, m, CircuitState(0, 0, FALSE, 0))

\* a breaker check that never reports open
IsCircuitOpenNever(cs, m, now) == <<FALSE, GetCircuit(cs, m)>>

\* a cooldown reset that leaves the failure counter as it was
IsCircuitOpenKeepCount(cs, m, now) ==
    LET g == GetCircuit(cs, m)
    IN  IF g[m].is_open
        THEN IF now > g[m].open_until
             THEN <<FALSE, [g EXCEPT ![m].is_open = FALSE]>>
             ELSE <<TRUE, g>>
        ELSE <<FALSE, g>>

\* FallbackManager._is_circuit_open: <<reported open?, circuits afterwards>>
IsCircuitOpen(cs, m, now) ==
    LET g == GetCircuit(cs, m)
    IN  IF g[m].is_open
        THEN IF now > g[m].open_until
             THEN <<FALSE, [g EXCEPT ![m].is_open = FALSE, ![m].failures = 0]>>
             ELSE <<TRUE, g>>
        ELSE <<FALSE, g>>

\* a failure count that is never reset
RecordFailureNoReset(cs, m, now) ==
    LET g == GetCircuit(cs, m)
        f == g[m].failures + 1
    IN  IF f >= failure_threshold
        THEN [g EXCEPT ![m] = CircuitState(f, now, TRUE, now + cooldown_seconds)]
        ELSE [g EXCEPT ![m].failures = f, ![m].last_failure_time = now]

\* a failure record that counts but never trips the circuit
RecordFailureNoTrip(cs, m, now) ==
    LET g == GetCircuit(cs, m)
        base == IF now - g[m].last_failure_time > reset_interval THEN 0 ELSE g[m].failures
    IN  [g EXCEPT ![m].failures = base + 1, ![m].last_failure_time = now]

\* FallbackManager._record_failure
RecordFailure(cs, m, now) ==
    LET g == GetCircuit(cs, m)
        base == IF now - g[m].last_failure_time > reset_interval THEN 0 ELSE g[m].failures
        f == base + 1
    IN  IF f >= failure_threshold
        THEN [g EXCEPT ![m] = CircuitState(f, now, TRUE, now + cooldown_seconds)]
        ELSE [g EXCEPT ![m].failures = f, ![m].last_failure_time = now]

\* a success that clears the failure counter
RecordSuccessReset(cs, m) ==
    LET g == GetCircuit(cs, m)
    IN  [g EXCEPT ![m].failures = 0]

\* FallbackManager._record_success
RecordSuccess(cs, m) ==
    LET g == GetCircuit(cs, m)
    IN  IF g[m].failures > 0
        THEN [g EXCEPT ![m].failures = IF @ - 1 > 0 THEN @ - 1 ELSE 0]
        ELSE g

\* a loop that always hands the first model of the chain to func
CandidateFirst(t) == tchain[t][1]

\* nobody holds self._lock
NoThread == 0

\* a call of func made inside the with self._lock block
LockDuringFuncHeld(t) == t

\* line 84: func is called after _is_circuit_open has left its
\* with self._lock block and before _record_success / _record_failure enter
\* theirs, so the calling thread does not hold the lock meanwhile
LockDuringFunc(t) == NoThread

\* the candidate thread t is at
Candidate(t) == tchain[t][ti[t]]

\* execute_with_fallback is left: its locals are gone
CallEnds(t) ==
    /\ tpc' = [tpc EXCEPT ![t] = "idle"]
    /\ tchain' = [tchain EXCEPT ![t] = <<>>]
    /\ ti' = [ti EXCEPT ![t] = 1]
    /\ tlast' = [tlast EXCEPT ![t] = NoError]

\* execute_with_fallback is called (line 73: last_error = None)
FBStart(t, chain) ==
    /\ tpc[t] = "idle"
    /\ fbCalls < MaxCalls
    /\ fbCalls' = fbCalls + 1
    /\ tpc' = [tpc EXCEPT ![t] = "check"]
    /\ tchain' = [tchain EXCEPT ![t] = chain]
    /\ ti' = [ti EXCEPT ![t] = 1]
    /\ tlast' = [tlast EXCEPT ![t] = NoError]
    /\ UNCHANGED <<circuits, lockHolder, fbNow, ev, fbOthers>>

\* top of the loop (lines 75-79): the chain is exhausted and last_error is
\* raised ("raise None" is a TypeError), or the candidate's circuit is checked
\* under the lock and the candidate is skipped or kept
FBCheck(t) ==
    /\ tpc[t] = "check"
    /\ ti[t] <= Len(tchain[t]) => lockHolder = NoThread
    /\ IF ti[t] > Len(tchain[t])
       THEN /\ ev' = [op |-> "execute", who |-> t, kind |-> "raise",
                      val |-> IF tlast[t] = NoError THEN TypeError ELSE tlast[t]]
            /\ CallEnds(t)
            /\ UNCHANGED circuits
       ELSE LET r == IsCircuitOpen(circuits, Candidate(t), fbNow)
            IN  /\ circuits' = r[2]
                /\ IF r[1]
                   THEN /\ ti' = [ti EXCEPT ![t] = @ + 1]
                        /\ UNCHANGED tpc
                   ELSE /\ tpc' = [tpc EXCEPT ![t] = "invoke"]
                        /\ UNCHANGED ti
                /\ UNCHANGED <<ev, tchain, tlast>>
    /\ UNCHANGED <<lockHolder, fbCalls, fbNow, fbOthers>>

\* line 84: func(*args, model_id=model_id) is entered, outside the lock
FBInvoke(t) ==
    /\ tpc[t] = "invoke"
    /\ tpc' = [tpc EXCEPT ![t] = "running"]
    /\ lockHolder' = LockDuringFunc(t)
    /\ UNCHANGED <<circuits, tchain, ti, tlast, fbCalls, fbNow, ev, fbOthers>>

\* lines 84-98: func returns; the success is recorded under the lock and the
\* result is returned to the caller
FBSucceed(t) ==
    /\ tpc[t] = "running"
    /\ lockHolder = NoThread
    /\ circuits' = RecordSuccess(circuits, Candidate(t))
    /\ ev' = [op |-> "execute", who |-> t, kind |-> "return", val |-> Candidate(t)]
    /\ CallEnds(t)
    /\ UNCHANGED <<lockHolder, fbCalls, fbNow, fbOthers>>

\* lines 100-108: func raises; last_error = e, the failure is recorded under
\* the lock and the loop goes on with the next candidate
FBFail(t) ==
    /\ tpc[t] = "running"
    /\ lockHolder = NoThread
    /\ tlast' = [tlast EXCEPT ![t] = Candidate(t)]
    /\ circuits' = RecordFailure(circuits, Candidate(t), fbNow)
    /\ ti' = [ti EXCEPT ![t] = @ + 1]
    /\ tpc' = [tpc EXCEPT ![t] = "check"]
    /\ UNCHANGED <<lockHolder, tchain, fbCalls, fbNow, ev, fbOthers>>

TickFB ==
    /\ fbNow < FBEpoch + FBMaxTime
    /\ fbNow' = fbNow + 1
    /\ UNCHANGED <<circuits, lockHolder, tpc, tchain, ti, tlast, fbCalls, ev, fbOthers>>

\* FallbackManager.__init__
FBInit ==
    /\ circuits = <<>>
    /\ lockHolder = NoThread
    /\ tpc = [t \in Threads |-> "idle"]
    /\ tchain = [t \in Threads |-> <<>>]
    /\ ti = [t \in Threads |-> 1]
    /\ tlast = [t \in Threads |-> NoError]
    /\ fbCalls = 0
    /\ fbNow = FBEpoch

NextFB ==
    \/ \E t \in Threads, chain \in Chains : FBStart(t, chain)
    \/ \E t \in Threads : FBCheck(t)
    \/ \E t \in Threads : FBInvoke(t)
    \/ \E t \in Threads : FBSucceed(t)
    \/ \E t \in Threads : FBFail(t)
    \/ TickFB

(***************************************************************************)
(* MemoryWatchdog                                                          *)
(***************************************************************************)

\* MemoryWatchdog(soft_limit_percent=75.0, hard_limit_percent=90.0)
soft_limit == 75
hard_limit == 90

\* bounds of the memory watchdog model
MaxStarts == 2
MaxPolls == 4

\* the values psutil.virtual_memory().percent takes in the model
Percents == {50, 80, 95}

\* a monitor thread: pc is its position in _monitor_loop, percent its local
\* sample; the rest is bookkeeping about that sample: whether it crossed the
\* soft / hard limit upwards with respect to the sample polled before it, and
\* how often the soft / hard callback ran for it
LoopThread(pc, percent, sx, hx, sf, hf) ==
    [pc |-> pc, percent |-> percent,
     softCross |-> sx, hardCross |-> hx, softFired |-> sf, hardFired |-> hf]

\* MemoryWatchdog.start
MWStart ==
    /\ ~mwRunning
    /\ Len(mwLoops) < MaxStarts
    /\ mwRunning' = TRUE
    /\ mwLoops' = Append(mwLoops, LoopThread("top", 0, FALSE, FALSE, 0, 0))
    /\ UNCHANGED <<softTrig, hardTrig, peak, lastSample, polls, mwEnabled, mwOthers>>

\* MemoryWatchdog.stop: _running = False; the join gives up after 2 seconds,
\* so the loop thread may still be asleep when stop returns
MWStop ==
    /\ mwRunning
    /\ mwRunning' = FALSE
    /\ UNCHANGED <<mwLoops, softTrig, hardTrig, peak, lastSample, polls, mwEnabled, mwOthers>>

\* _monitor_loop lines 150-158: while self._running; sample; update the peak
MWSample(k, percent) ==
    /\ mwLoops[k].pc = "top"
    /\ IF ~mwRunning
       THEN /\ mwLoops' = [mwLoops EXCEPT ![k].pc = "exited"]
            /\ UNCHANGED <<peak, lastSample, polls>>
       ELSE /\ polls < MaxPolls
            /\ polls' = polls + 1
            /\ lastSample' = percent
            /\ peak' = IF percent > peak THEN percent ELSE peak
            /\ mwLoops' = [mwLoops EXCEPT ![k] =
                  LoopThread("soft", percent,
                             percent >= soft_limit /\ lastSample < soft_limit,
                             percent >= hard_limit /\ lastSample < hard_limit,
                             0, 0)]
    /\ UNCHANGED <<mwRunning, softTrig, hardTrig, mwEnabled, mwOthers>>

\* line 161: percent >= self.soft_limit and not self._soft_limit_triggered
SoftDue(percent, triggered) == percent >= soft_limit /\ ~triggered

\* line 168: percent >= self.hard_limit and not self._hard_limit_triggered
HardDue(percent, triggered) == percent >= hard_limit /\ ~triggered

\* lines 161-165: the soft test; entering _handle_soft_limit runs the soft
\* callback
MWSoftTest(k) ==
    /\ mwLoops[k].pc = "soft"
    /\ IF SoftDue(mwLoops[k].percent, softTrig)
       THEN /\ mwLoops' = [mwLoops EXCEPT ![k].pc = "soft_handled",
                                            ![k].softFired = @ + 1]
            /\ UNCHANGED softTrig
       ELSE /\ mwLoops' = [mwLoops EXCEPT ![k].pc = "hard"]
            /\ softTrig' = IF mwLoops[k].percent < soft_limit THEN FALSE ELSE softTrig
    /\ UNCHANGED <<mwRunning, hardTrig, peak, lastSample, polls, mwEnabled, mwOthers>>

\* line 163: self._soft_limit_triggered = True, after the handler returned
MWSoftSet(k) ==
    /\ mwLoops[k].pc = "soft_handled"
    /\ softTrig' = TRUE
    /\ mwLoops' = [mwLoops EXCEPT ![k].pc = "hard"]
    /\ UNCHANGED <<mwRunning, hardTrig, peak, lastSample, polls, mwEnabled, mwOthers>>

\* lines 168-172: the hard test; entering _handle_hard_limit runs the hard
\* callback
MWHardTest(k) ==
    /\ mwLoops[k].pc = "hard"
    /\ IF HardDue(mwLoops[k].percent, hardTrig)
       THEN /\ mwLoops' = [mwLoops EXCEPT ![k].pc = "hard_handled",
                                            ![k].hardFired = @ + 1]
            /\ UNCHANGED hardTrig
       ELSE /\ mwLoops' = [mwLoops EXCEPT ![k].pc = "sleep"]
            /\ hardTrig' = IF mwLoops[k].percent < hard_limit THEN FALSE ELSE hardTrig
    /\ UNCHANGED <<mwRunning, softTrig, peak, lastSample, polls, mwEnabled, mwOthers>>

\* line 170: self._hard_limit_triggered = True, after the handler returned
MWHardSet(k) ==
    /\ mwLoops[k].pc = "hard_handled"
    /\ hardTrig' = TRUE
    /\ mwLoops' = [mwLoops EXCEPT ![k].pc = "sleep"]
    /\ UNCHANGED <<mwRunning, softTrig, peak, lastSample, polls, mwEnabled, mwOthers>>

\* line 174: time.sleep(self.check_interval) is over
MWSleepEnds(k) ==
    /\ mwLoops[k].pc = "sleep"
    /\ mwLoops' = [mwLoops EXCEPT ![k].pc = "top"]
    /\ UNCHANGED <<mwRunning, softTrig, hardTrig, peak, lastSample, polls, mwEnabled, mwOthers>>

\* MemoryWatchdog.__init__(enabled=en)
MWNew(en) ==
    /\ mwEnabled = en
    /\ mwRunning = FALSE
    /\ mwLoops = <<>>
    /\ softTrig = FALSE
    /\ hardTrig = FALSE
    /\ peak = 0
    /\ lastSample = 0
    /\ polls = 0

\* MemoryWatchdog(): enabled defaults to True
MWInit == MWNew(TRUE)

NextMW ==
    \/ MWStart
    \/ MWStop
    \/ \E k \in 1..Len(mwLoops), percent \in Percents : MWSample(k, percent)
    \/ \E k \in 1..Len(mwLoops) : MWSoftTest(k)
    \/ \E k \in 1..Len(mwLoops) : MWSoftSet(k)
    \/ \E k \in 1..Len(mwLoops) : MWHardTest(k)
    \/ \E k \in 1..Len(mwLoops) : MWHardSet(k)
    \/ \E k \in 1..Len(mwLoops) : MWSleepEnds(k)

\* a value that may be missing: <<>> for a key the yaml file does not have
\* (or a watchdog not made yet), <<v>> for the value v
Absent == <<>>

\* config.get(key, default)
ConfigGet(opt, default) == IF opt = Absent THEN default ELSE opt[1]

\* MemoryWatchdog.__init__(soft_limit_percent, hard_limit_percent,
\* check_interval, enabled): the fields from_config decides
Watchdog(soft, hard, interval, enabled) ==
    [soft_limit |-> soft, hard_limit |-> hard,
     check_interval |-> interval, enabled |-> enabled]

\* cls(): the defaults of __init__
DefaultWatchdog == Watchdog(75, 90, 10, TRUE)

\* MemoryWatchdog.from_config lines 78-109
FromConfig(config, ram) ==
    IF ~config.found THEN DefaultWatchdog
    ELSE LET enabled == ConfigGet(config.enabled, FALSE)
             soft == ConfigGet(config.soft_limit_percent, 75)
             hard == ConfigGet(config.hard_limit_percent, 90)
             check_interval == ConfigGet(config.check_interval, 10)
             auto_adjust == ConfigGet(config.auto_adjust, TRUE)
             low_ram_threshold == ConfigGet(config.low_ram_threshold_gb, 8)
             low == auto_adjust /\ ram < low_ram_threshold
         IN  Watchdog(
                 IF low THEN ConfigGet(config.low_ram_soft_limit, 85) ELSE soft,
                 IF low THEN ConfigGet(config.low_ram_hard_limit, 95) ELSE hard,
                 check_interval, enabled)

\* MemoryWatchdog.from_config(config_manager) is called
FromConfigCall ==
    /\ made = Absent
    /\ made' = <<FromConfig(yaml, total_ram_gb)>>
    /\ UNCHANGED <<mwRunning, mwEnabled, mwLoops, softTrig, hardTrig, peak, lastSample,
                   polls, yaml, total_ram_gb, tqVars, cmVars, fbVars, wwVars, ev>>

\* a yaml file that is missing: load_yaml(required=False) returns None
NoYaml ==
    [found |-> FALSE, enabled |-> Absent, soft_limit_percent |-> Absent,
     hard_limit_percent |-> Absent, check_interval |-> Absent,
     auto_adjust |-> Absent, low_ram_threshold_gb |-> Absent,
     low_ram_soft_limit |-> Absent, low_ram_hard_limit |-> Absent]

\* the yaml files of the model: every key present or not; 95 / 98 / 30 are the
\* values of the file ConfigManager._create_default_config writes
YamlFiles ==
    [found : {TRUE},
     enabled : {Absent, <<TRUE>>},
     soft_limit_percent : {Absent, <<75>>, <<95>>},
     hard_limit_percent : {Absent, <<90>>, <<98>>},
     check_interval : {Absent, <<30>>},
     auto_adjust : {Absent, <<TRUE>>, <<FALSE>>},
     low_ram_threshold_gb : {Absent, <<4>>, <<16>>},
     low_ram_soft_limit : {Absent, <<80>>, <<97>>},
     low_ram_hard_limit : {Absent, <<92>>, <<99>>}]

\* the sizes of RAM of the model, in GB
RamSizes == {4, 8, 16}

\* the process did not call from_config
FCIdle ==
    /\ yaml = NoYaml
    /\ total_ram_gb = 8
    /\ made = Absent

\* from_config is about to be called with some yaml file on some machine
FCInputs ==
    /\ yaml \in YamlFiles \cup {NoYaml}
    /\ total_ram_gb \in RamSizes
    /\ made = Absent

(***************************************************************************)
(* WorkerWatchdog                                                          *)
(***************************************************************************)

\* WorkerStatus
IDLE == "idle"
ACTIVE == "active"
ZOMBIE == "zombie"
TERMINATED == "terminated"

\* WorkerWatchdog(default_timeout, max_workers, zombie_cleanup_delay), and the
\* one entry of self._task_timeouts the model uses, in clock ticks
default_timeout == 2
max_workers == 2
zombie_cleanup_delay == 1
tts_timeout == 1

\* bounds of the worker watchdog model
WWMaxTime == 3
WWMaxStarts == 1
WWMaxCalls == 5

\* the ids the callers register, the task types and the task ids they pass
BaseIds == {<<"w1">>, <<"w2">>}
TaskTypes == {"tts_generation", "other"}
Tasks == {"t1"}

\* current_task = None, started_at = None
NoTask == "None"
NoTime == -1

\* WorkerInfo(worker_id, status, current_task, started_at, last_heartbeat,
\* timeout_seconds); the worker_id is the key under which the object was stored
WorkerInfo(status, task, started, hb, timeout) ==
    [status |-> status, current_task |-> task, started_at |-> started,
     last_heartbeat |-> hb, timeout_seconds |-> timeout]

\* the keys of the dict w
DictKeys(w) == {w[i][1] : i \in 1..Len(w)}

\* worker_id in self._workers
DictHas(w, id) == id \in DictKeys(w)

\* self._workers[worker_id]: the object stored under the key
DictGet(w, id) == w[CHOOSE i \in 1..Len(w) : w[i][1] = id][2]

\* self._workers[worker_id] = obj: an existing key keeps its position
DictPut(w, id, s) ==
    IF DictHas(w, id)
    THEN [i \in 1..Len(w) |-> IF w[i][1] = id THEN <<id, s>> ELSE w[i]]
    ELSE Append(w, <<id, s>>)

\* del self._workers[worker_id]
DictDel(w, id) ==
    LET Keep(e) == e[1] # id IN SelectSeq(w, Keep)

\* the address of a newly allocated object
NewObj(o) == CHOOSE s \in 1..(Cardinality(DOMAIN o) + 1) : s \notin DOMAIN o

\* an object lives as long as the dict or the snapshot of a monitor thread
\* refers to it
Referenced(w, ms) ==
    {w[i][2] : i \in 1..Len(w)}
    \cup UNION {{ms[m].todo[i][2] : i \in 1..Len(ms[m].todo)} : m \in 1..Len(ms)}
    \cup UNION {IF ms[m].pc = "handle" THEN {ms[m].cur[2]} ELSE {} : m \in 1..Len(ms)}

Collect(o, w, ms) == [s \in DOMAIN o \cap Referenced(w, ms) |-> o[s]]

\* register_worker: its result, and the dict and the objects after it
RegisterWorker(w, o, id, now) ==
    IF Len(w) >= max_workers
    THEN [ok |-> FALSE, workers |-> w, objs |-> o]
    ELSE LET s == NewObj(o)
         IN  [ok |-> TRUE, workers |-> DictPut(w, id, s),
              objs |-> With(o, s, WorkerInfo(IDLE, NoTask, NoTime, now, default_timeout))]

\* self._task_timeouts.get(task_type, self.default_timeout)
TaskTimeout(type) == IF type = "tts_generation" THEN tts_timeout ELSE default_timeout

\* f"{worker_id}_replacement_{int(time.time())}"
ReplacementId(id, now) == Append(id, now)

\* the ids a caller can pass: the ones it registered and the ones in the dict
CallerIds == BaseIds \cup DictKeys(workers)

\* register_worker called from outside, lines 96-102: the limit test; the
\* watchdog has no lock, so other threads run between the test and the store
WWRegister(id) ==
    /\ wwCalls < WWMaxCalls
    /\ wwCalls' = wwCalls + 1
    /\ id \notin registering
    /\ registering' = IF Len(workers) >= max_workers
                      THEN registering
                      ELSE registering \cup {id}
    /\ UNCHANGED <<workers, objs, wwRunning, monitors, timers, wwNow, wwOthers>>

\* register_worker called from outside, lines 104-119: the store
WWRegisterStore(id) ==
    LET s == NewObj(objs)
    IN  /\ id \in registering
        /\ registering' = registering \ {id}
        /\ workers' = DictPut(workers, id, s)
        /\ objs' = Collect(With(objs, s, WorkerInfo(IDLE, NoTask, NoTime, wwNow,
                                                    default_timeout)),
                           workers', monitors)
        /\ UNCHANGED <<wwRunning, monitors, timers, wwCalls, wwNow, wwOthers>>

\* start_task
WWStartTask(id, type, task) ==
    /\ IF ~DictHas(workers, id)
       THEN UNCHANGED objs
       ELSE objs' = [objs EXCEPT ![DictGet(workers, id)] =
                        WorkerInfo(ACTIVE, task, wwNow, wwNow, TaskTimeout(type))]
    /\ wwCalls < WWMaxCalls
    /\ wwCalls' = wwCalls + 1
    /\ UNCHANGED <<workers, wwRunning, monitors, timers, wwNow, registering, wwOthers>>

\* heartbeat
WWHeartbeat(id) ==
    /\ IF ~DictHas(workers, id)
       THEN UNCHANGED objs
       ELSE objs' = [objs EXCEPT ![DictGet(workers, id)].last_heartbeat = wwNow]
    /\ wwCalls < WWMaxCalls
    /\ wwCalls' = wwCalls + 1
    /\ UNCHANGED <<workers, wwRunning, monitors, timers, wwNow, registering, wwOthers>>

\* complete_task
WWCompleteTask(id) ==
    /\ IF ~DictHas(workers, id)
       THEN UNCHANGED <<objs, timers>>
       ELSE LET s == DictGet(workers, id)
            IN  IF objs[s].status = ZOMBIE
                THEN /\ objs' = [objs EXCEPT ![s].status = TERMINATED]
                     /\ timers' = timers \cup
                            {[id |-> id, due |-> wwNow + zombie_cleanup_delay]}
                ELSE /\ objs' = [objs EXCEPT ![s].status = IDLE,
                                             ![s].current_task = NoTask,
                                             ![s].started_at = NoTime]
                     /\ UNCHANGED timers
    /\ wwCalls < WWMaxCalls
    /\ wwCalls' = wwCalls + 1
    /\ UNCHANGED <<workers, wwRunning, monitors, wwNow, registering, wwOthers>>

\* a cleanup timer fires: _cleanup_worker
WWCleanup(tm) ==
    /\ tm \in timers
    /\ wwNow >= tm.due
    /\ timers' = timers \ {tm}
    /\ workers' = DictDel(workers, tm.id)
    /\ objs' = Collect(objs, workers', monitors)
    /\ UNCHANGED <<wwRunning, monitors, wwNow, wwCalls, registering, wwOthers>>

\* a monitor thread: pc is its position in _monitor_loop, now and todo the
\* local now and the rest of the list(self._workers.items()) of the check it is
\* in, cur the entry it found timed out
MonitorThread(pc, now, todo, cur) == [pc |-> pc, now |-> now, todo |-> todo, cur |-> cur]

\* WorkerWatchdog.start
WWStart ==
    /\ ~wwRunning
    /\ Len(monitors) < WWMaxStarts
    /\ wwRunning' = TRUE
    /\ monitors' = Append(monitors, MonitorThread("top", 0, <<>>, <<>>))
    /\ UNCHANGED <<workers, objs, timers, wwNow, wwCalls, registering, wwOthers>>

\* WorkerWatchdog.stop: _running = False; the join gives up after 2 seconds
WWStop ==
    /\ wwRunning
    /\ wwRunning' = FALSE
    /\ UNCHANGED <<workers, objs, monitors, timers, wwNow, wwCalls, registering, wwOthers>>

\* _monitor_loop line 226 and _check_timeouts lines 239-241: the loop test, now
\* and the snapshot of the dict
MonBegin(m) ==
    /\ monitors[m].pc = "top"
    /\ monitors' = [monitors EXCEPT ![m] =
          IF wwRunning
          THEN MonitorThread("scan", wwNow, workers, <<>>)
          ELSE MonitorThread("exited", 0, <<>>, <<>>)]
    /\ UNCHANGED <<workers, objs, wwRunning, timers, wwNow, wwCalls, registering, wwOthers>>

\* a timeout test against the time since the task started
TimedOutSinceStart(wk, now) ==
    /\ wk.status = ACTIVE
    /\ wk.started_at # NoTime
    /\ now - wk.started_at > wk.timeout_seconds

\* _check_timeouts lines 242-251: is the worker active and timed out
TimedOut(wk, now) ==
    /\ wk.status = ACTIVE
    /\ wk.started_at # NoTime
    /\ now - wk.last_heartbeat > wk.timeout_seconds

\* _check_timeouts: one turn of the for loop up to the call of
\* _handle_timeout; the check is over when the snapshot is used up
MonCheck(m) ==
    LET mt == monitors[m]
    IN  /\ mt.pc = "scan"
        /\ monitors' = [monitors EXCEPT ![m] =
              IF mt.todo = <<>>
              THEN MonitorThread("sleep", 0, <<>>, <<>>)
              ELSE IF TimedOut(objs[Head(mt.todo)[2]], mt.now)
                   THEN MonitorThread("handle", mt.now, Tail(mt.todo), Head(mt.todo))
                   ELSE MonitorThread("scan", mt.now, Tail(mt.todo), <<>>)]
        /\ objs' = Collect(objs, workers, monitors')
        /\ UNCHANGED <<workers, wwRunning, timers, wwNow, wwCalls, registering, wwOthers>>

\* a handler that resets the worker the way complete_task does
MarkZombieReset(o, s) ==
    [o EXCEPT ![s].status = ZOMBIE, ![s].current_task = NoTask, ![s].started_at = NoTime]

\* _handle_timeout line 273: worker.status = WorkerStatus.ZOMBIE
MarkZombie(o, s) == [o EXCEPT ![s].status = ZOMBIE]

\* _handle_timeout
MonHandle(m) ==
    LET mt == monitors[m]
        id == mt.cur[1]
        marked == MarkZombie(objs, mt.cur[2])
        new_worker_id == ReplacementId(id, wwNow)
        r == RegisterWorker(workers, marked, new_worker_id, wwNow)
    IN  /\ mt.pc = "handle"
        /\ monitors' = [monitors EXCEPT ![m] = MonitorThread("scan", mt.now, mt.todo, <<>>)]
        /\ workers' = r.workers
        /\ objs' = Collect(r.objs, r.workers, monitors')
        /\ UNCHANGED <<wwRunning, timers, wwNow, wwCalls, registering, wwOthers>>

\* _monitor_loop line 229: time.sleep(self.heartbeat_interval) is over
MonSleepEnds(m) ==
    /\ monitors[m].pc = "sleep"
    /\ monitors' = [monitors EXCEPT ![m].pc = "top"]
    /\ UNCHANGED <<workers, objs, wwRunning, timers, wwNow, wwCalls, registering, wwOthers>>

\* time passes
TickWW ==
    /\ wwNow < WWMaxTime
    /\ wwNow' = wwNow + 1
    /\ UNCHANGED <<workers, objs, wwRunning, monitors, timers, wwCalls, registering, wwOthers>>

\* WorkerWatchdog.__init__
WWInit ==
    /\ workers = <<>>
    /\ objs = <<>>
    /\ wwRunning = FALSE
    /\ monitors = <<>>
    /\ timers = {}
    /\ registering = {}
    /\ wwCalls = 0
    /\ wwNow = 0

NextWW ==
    \/ \E id \in BaseIds : WWRegister(id)
    \/ \E id \in BaseIds : WWRegisterStore(id)
    \/ \E id \in CallerIds, type \in TaskTypes, task \in Tasks : WWStartTask(id, type, task)
    \/ \E id \in CallerIds : WWHeartbeat(id)
    \/ \E id \in CallerIds : WWCompleteTask(id)
    \/ \E tm \in timers : WWCleanup(tm)
    \/ WWStart
    \/ WWStop
    \/ \E m \in 1..Len(monitors) : MonBegin(m)
    \/ \E m \in 1..Len(monitors) : MonCheck(m)
    \/ \E m \in 1..Len(monitors) : MonHandle(m)
    \/ \E m \in 1..Len(monitors) : MonSleepEnds(m)
    \/ TickWW

\* sum(1 for w in self._workers.values() if w.status == status)
CountStatus(w, o, status) ==
    Cardinality({i \in 1..Len(w) : o[w[i][2]].status = status})

\* get_worker_stats
WorkerStats(w, o) ==
    [total |-> Len(w),
     active |-> CountStatus(w, o, ACTIVE),
     idle |-> CountStatus(w, o, IDLE),
     zombies |-> CountStatus(w, o, ZOMBIE),
     terminated |-> CountStatus(w, o, TERMINATED)]

\* health_check lines 312-317: the status for the stats
HealthStatus(stats) ==
    IF stats["zombies"] > 2 THEN "degraded"
    ELSE IF stats["zombies"] > 5 THEN "error"
    ELSE "ok"

\* health_check
WWHealthCheck ==
    /\ ev' = [op |-> "health_check",
              status |-> HealthStatus(WorkerStats(workers, objs)),
              running |-> wwRunning,
              worker_stats |-> WorkerStats(workers, objs)]
    /\ UNCHANGED <<wwVars, tqVars, cmVars, fbVars, mwVars>>

\* the largest table health_check is applied to
HCMaxWorkers == 6

\* the tables of a watchdog constructed with max_workers = HCMaxWorkers: up to
\* that many workers, each in any state
WWTables ==
    /\ \E n \in 0..HCMaxWorkers :
          /\ workers = [i \in 1..n |-> <<<<"w", i>>, i>>]
          /\ \E st \in [1..n -> {IDLE, ACTIVE, ZOMBIE, TERMINATED}] :
                objs = [i \in 1..n |->
                          WorkerInfo(st[i], IF st[i] = IDLE THEN NoTask ELSE "t1",
                                     IF st[i] = IDLE THEN NoTime ELSE 0, 0,
                                     default_timeout)]
    /\ wwRunning = FALSE
    /\ monitors = <<>>
    /\ timers = {}
    /\ registering = {}
    /\ wwCalls = 0
    /\ wwNow = 0

(***************************************************************************)
(* Specifications: one component runs, the others stay as constructed      *)
(***************************************************************************)

InitTQ == TQInit /\ CMIdle /\ FBInit /\ MWInit /\ WWInit /\ ev = [op |-> "init"] /\ FCIdle

SpecTQ == InitTQ /\ [][NextTQ]_vars

\* The queue with a consumer that keeps calling get_next_task(timeout): the
\* consumer's steps and the clock are weakly fair, the producers are free.
NextTQLive ==
    \/ \E p \in Priority : Submit(p)
    \/ GetNextTask(1, TRUE)
    \/ WaitTimesOut(1)
    \/ GetAfterWait(1)
    \/ TickTQ

\* weak fairness of the consumer's steps and of the clock; for the two steps
\* that pop, WF is written out with the step's enabling condition (the
\* consumer is idle, the consumer holds the lock again after its wait)
FairTQ ==
    /\ ([]<>(cpc[1] # "idle") \/ []<><<GetNextTask(1, TRUE)>>_vars)
    /\ ([]<>(cpc[1] # "woken") \/ []<><<GetAfterWait(1)>>_vars)
    /\ WF_vars(WaitTimesOut(1))
    /\ WF_vars(TickTQ)

SpecTQLive == InitTQ /\ [][NextTQLive]_vars /\ FairTQ

InitCM == CMInit /\ TQInit /\ FBInit /\ MWInit /\ WWInit /\ ev = [op |-> "init"] /\ FCIdle

SpecCM == InitCM /\ [][NextCM]_vars

InitFB == FBInit /\ TQInit /\ CMIdle /\ MWInit /\ WWInit /\ ev = [op |-> "init"] /\ FCIdle

SpecFB == InitFB /\ [][NextFB]_vars

\* The fallback manager with a wrapped function that never returns to the
\* calls of thread Hung, while the calls of the other threads go on: their
\* loop steps are weakly fair and their invocations of func end, by a result
\* or by an exception.
Hung == 1

NextFBHung ==
    \/ \E t \in Threads, chain \in Chains : FBStart(t, chain)
    \/ \E t \in Threads : FBCheck(t)
    \/ \E t \in Threads : FBInvoke(t)
    \/ \E t \in Threads \ {Hung} : FBSucceed(t)
    \/ \E t \in Threads \ {Hung} : FBFail(t)
    \/ TickFB

FairFB ==
    \A t \in Threads \ {Hung} :
        /\ WF_vars(FBCheck(t))
        /\ WF_vars(FBInvoke(t))
        /\ WF_vars(FBSucceed(t) \/ FBFail(t))

SpecFBHung == InitFB /\ [][NextFBHung]_vars /\ FairFB

InitMW == (\E en \in BOOLEAN : MWNew(en)) /\ TQInit /\ CMIdle /\ FBInit /\ WWInit /\ ev = [op |-> "init"] /\ FCIdle

SpecMW == InitMW /\ [][NextMW]_vars

InitWW == WWInit /\ TQInit /\ CMIdle /\ FBInit /\ MWInit /\ ev = [op |-> "init"] /\ FCIdle

SpecWW == InitWW /\ [][NextWW]_vars

\* The watchdog with one worker id over a longer time: the clock keeps
\* running and every Timer fires at some time after it is due.
WWLiveMaxTime == 4

TickWWLive ==
    /\ wwNow < WWLiveMaxTime
    /\ wwNow' = wwNow + 1
    /\ UNCHANGED <<workers, objs, wwRunning, monitors, timers, wwCalls, registering, wwOthers>>

NextWWLive ==
    \/ WWRegister(<<"w1">>)
    \/ WWRegisterStore(<<"w1">>)
    \/ WWStartTask(<<"w1">>, "tts_generation", "t1")
    \/ WWCompleteTask(<<"w1">>)
    \/ \E tm \in timers : WWCleanup(tm)
    \/ WWStart
    \/ \E m \in 1..Len(monitors) : MonBegin(m)
    \/ \E m \in 1..Len(monitors) : MonCheck(m)
    \/ \E m \in 1..Len(monitors) : MonHandle(m)
    \/ \E m \in 1..Len(monitors) : MonSleepEnds(m)
    \/ TickWWLive

FairWW ==
    /\ WF_vars(\E tm \in timers : WWCleanup(tm))
    /\ WF_vars(TickWWLive)

SpecWWLive == InitWW /\ [][NextWWLive]_vars /\ FairWW

\* health_check applied to every table of up to HCMaxWorkers workers
InitHC == WWTables /\ TQInit /\ CMIdle /\ FBInit /\ MWInit /\ ev = [op |-> "init"] /\ FCIdle

SpecHC == InitHC /\ [][WWHealthCheck]_vars

\* from_config applied to every yaml file and RAM size of the model
InitFC ==
    FCInputs /\ MWInit /\ TQInit /\ CMIdle /\ FBInit /\ WWInit /\ ev = [op |-> "init"]

SpecFC == InitFC /\ [][FromConfigCall]_vars

(***************************************************************************)
(* CacheManager: properties                                                *)
(***************************************************************************)

\* C3: an entry pinned with success and not unpinned since is in the item map
\* and on disk, whatever ensure_space, scan, pin, unpin and touch calls ran.
C3_PinnedNeverEvicted ==
    \A id \in pinHeld : id \in DOMAIN items /\ id \in DOMAIN disk

\* C3 witness: an ensure_space call deleted an entry and still failed, with a
\* pinned entry left in place.
C3_Witness ==
    /\ ev.op = "ensure_space"
    /\ ev.evicted # {}
    /\ ~ev.ret
    /\ pinHeld # {}
    /\ \A id \in pinHeld : id \in DOMAIN items /\ items[id].pinned

\* C4 as claimed: ensure_space(n) returns True exactly when
\* n <= max_cache_bytes - sum of the pinned sizes.
C4_Original ==
    ev.op = "ensure_space" =>
        (ev.ret <=> ev.arg <= max_cache_bytes - PinnedUsage(items))

\* C4 amended: a True return implies n <= max_cache_bytes - pinned sizes, and
\* when no deletion of the call failed the return is True exactly when
\* n <= max_cache_bytes - pinned sizes.
C4_SucceedsIffFitsBesidePinned ==
    ev.op = "ensure_space" =>
        /\ ev.ret => ev.arg <= max_cache_bytes - PinnedUsage(items)
        /\ ev.failed = {} =>
              (ev.ret <=> ev.arg <= max_cache_bytes - PinnedUsage(items))

\* C4 witness: a call that had to evict, met no deletion failure, and
\* succeeded beside a pinned entry.
C4_Witness ==
    /\ ev.op = "ensure_space"
    /\ ev.ret
    /\ ev.evicted # {}
    /\ ev.failed = {}
    /\ PinnedUsage(items) > 0

\* C22: after ensure_space(n) returned True the tracked usage plus n is
\* within max_cache_bytes; for n = 0, the tracked usage itself is.
C22_QuotaPostcondition ==
    (ev.op = "ensure_space" /\ ev.ret) =>
        SumSizes(items, DOMAIN items) + ev.arg <= max_cache_bytes

\* C22 witness: an ensure_space(0) over a cache above its quota evicted and
\* returned True.
C22_Witness ==
    /\ ev.op = "ensure_space"
    /\ ev.ret
    /\ ev.arg = 0
    /\ ev.evicted # {}

\* the bytes of the regular files under the top-level entries S of the
\* cache directory
RECURSIVE DiskBytes(_, _)
DiskBytes(d, S) ==
    IF S = {} THEN 0
    ELSE LET x == CHOOSE y \in S : TRUE
         IN  d[x].size + DiskBytes(d, S \ {x})

\* the item map and the cache directory agree: the same entries, with the
\* same sizes
InSync(its, d) ==
    /\ DOMAIN its = DOMAIN d
    /\ \A id \in DOMAIN its : its[id].size_bytes = d[id].size

\* C23: after _scan_cache (in the constructor or later) the item map has one
\* entry per top-level entry of the cache directory and the in-memory sizes
\* sum up to the bytes on disk; an ensure_space call without a failed deletion
\* made when the two agree leaves them agreeing.
C23_CacheAccounting ==
    /\ [](ev.op \in {"init", "scan"} =>
            /\ DOMAIN items = DOMAIN disk
            /\ SumSizes(items, DOMAIN items) = DiskBytes(disk, DOMAIN disk))
    /\ [][(InSync(items, disk) /\ ev'.op = "ensure_space" /\ ev'.failed = {}
             /\ <<items, disk, ev>> # <<items', disk', ev'>>)
            => InSync(items', disk')]_vars

\* C24: a rescan keeps the pinned flag and the pin reason of every item whose
\* identifier is still on disk, and the items it discovers start unpinned; a
\* CacheManager constructed over the same directory starts with every item
\* unpinned.
C24_RescanPreservesPins ==
    /\ [][ev'.op = "scan" =>
            /\ \A id \in DOMAIN items \cap DOMAIN disk :
                  /\ id \in DOMAIN items'
                  /\ items'[id].pinned = items[id].pinned
                  /\ items'[id].pin_reason = items[id].pin_reason
            /\ \A id \in DOMAIN items' \ DOMAIN items :
                  /\ ~items'[id].pinned
                  /\ items'[id].pin_reason = NoReason]_vars
    /\ [](ev.op \in {"init", "new"} =>
            \A id \in DOMAIN items : ~items[id].pinned /\ items[id].pin_reason = NoReason)

\* C24 witness: a rescan discovered a new entry while another entry of the
\* map is pinned.
C24_Witness ==
    /\ ev.op = "scan"
    /\ ev.found # {}
    /\ \E id \in DOMAIN items \ ev.found :
          items[id].pinned /\ items[id].pin_reason \in Reasons

\* C25: pin_model of an identifier without an entry in the item map returns
\* False and leaves every item as it was, pinned flag and pin reason
\* included; is_pinned of such an identifier is False.
C25_PinUnknown ==
    /\ [][(ev'.op = "pin" /\ ev'.arg \notin DOMAIN items) =>
             (ev'.ret = FALSE /\ items' = items)]_vars
    /\ []((ev.op = "is_pinned" /\ ev.arg \notin DOMAIN items) => ev.ret = FALSE)

\* C25 witness: pin_model of an unknown identifier returned False while the
\* map holds a pinned and an unpinned item.
C25_Witness ==
    /\ ev.op = "pin"
    /\ ev.arg \notin DOMAIN items
    /\ ev.ret = FALSE
    /\ \E id \in DOMAIN items : items[id].pinned
    /\ \E id \in DOMAIN items : ~items[id].pinned

\* a step of an ensure_space call (every other operation of the cache manager
\* records itself in ev, and the clock leaves ev alone)
EnsureStep == ev'.op = "ensure_space" /\ cmNow' = cmNow

\* E is the shortest prefix of the unpinned items of its, in ascending
\* last-accessed order, whose sizes add up to needed (all of them when even
\* that is not enough): E is closed towards the less recently accessed, and
\* without its most recently accessed member it falls short
LruPrefix(its, E, needed) ==
    /\ E \subseteq Evictable(its)
    /\ \A a \in E, b \in Evictable(its) \ E :
          its[a].last_accessed <= its[b].last_accessed
    /\ IF SumSizes(its, Evictable(its)) < needed
       THEN E = Evictable(its)
       ELSE /\ SumSizes(its, E) >= needed
            /\ \E a \in E :
                  /\ \A b \in E : its[b].last_accessed <= its[a].last_accessed
                  /\ SumSizes(its, E \ {a}) < needed

\* C29 as claimed: every ensure_space call evicts exactly the shortest LRU
\* prefix of the unpinned items that covers the shortfall, and nothing is
\* evicted or modified when the free capacity covers the request.
C29_Original ==
    [][EnsureStep =>
          LET available == max_cache_bytes - SumSizes(items, DOMAIN items)
          IN  IF available >= ev'.arg
              THEN ev'.evicted = {} /\ items' = items /\ disk' = disk
              ELSE /\ LruPrefix(items, ev'.evicted, ev'.arg - available)
                   /\ items' = [id \in DOMAIN items \ ev'.evicted |-> items[id]]
                   /\ disk' = [id \in DOMAIN disk \ ev'.evicted |-> disk[id]]]_vars

\* C29 amended: nothing is evicted or modified when the free capacity covers
\* the request; otherwise the call removes the evicted items and nothing else
\* from the map and the directory, and when no deletion of the call failed
\* the evicted items are exactly the shortest LRU prefix of the unpinned items
\* that covers the shortfall.
C29_LruEvictionSet ==
    [][EnsureStep =>
          LET available == max_cache_bytes - SumSizes(items, DOMAIN items)
          IN  IF available >= ev'.arg
              THEN ev'.evicted = {} /\ items' = items /\ disk' = disk
              ELSE /\ ev'.failed = {} =>
                         LruPrefix(items, ev'.evicted, ev'.arg - available)
                   /\ items' = [id \in DOMAIN items \ ev'.evicted |-> items[id]]
                   /\ disk' = [id \in DOMAIN disk \ ev'.evicted |-> disk[id]]]_vars

\* C29 witness: a call without a failed deletion evicted two items and kept
\* an unpinned item that touch_model had made the most recently accessed.
C29_Witness ==
    /\ ev.op = "ensure_space"
    /\ ev.failed = {}
    /\ Cardinality(ev.evicted) = 2
    /\ \E id \in DOMAIN items : ~items[id].pinned /\ items[id].last_accessed > 0

\* C30: in an ensure_space call that has to evict, an item whose deletion
\* fails stays in the item map as it was, its size is not counted as freed
\* (the call returns True only when the sizes of the items deleted cover the
\* shortfall), and the sweep goes on: a call that returns False has tried
\* every unpinned item.
C30_EvictionFailure ==
    [][EnsureStep =>
          LET available == max_cache_bytes - SumSizes(items, DOMAIN items)
              needed == ev'.arg - available
          IN  available < ev'.arg =>
                 /\ \A id \in ev'.failed :
                       id \in DOMAIN items' /\ items'[id] = items[id]
                 /\ ev'.failed \cap ev'.evicted = {}
                 /\ ev'.ret <=> SumSizes(items, ev'.evicted) >= needed
                 /\ ~ev'.ret => Evictable(items) = ev'.evicted \cup ev'.failed]_vars

\* C30 witness: a deletion failed, the sweep went on to evict another item,
\* and the call still returned False because the bytes freed fell short.
C30_Witness ==
    /\ ev.op = "ensure_space"
    /\ ev.failed # {}
    /\ ev.evicted # {}
    /\ ~ev.ret
    /\ ev.failed \subseteq DOMAIN items

(***************************************************************************)
(* FallbackManager: properties                                             *)
(***************************************************************************)

\* the circuit of target m as _get_circuit would give it
Circ(cs, m) == GetCircuit(cs, m)[m]

\* the circuit of m is open and its cooldown has not elapsed at time now
OpenAt(cs, m, now) == Circ(cs, m).is_open /\ ~(now > Circ(cs, m).open_until)

\* C5: a call of execute_with_fallback that ends without a result raises an
\* error that the wrapped function raised for a candidate of that call.
C5_RaisesUnderlyingError ==
    (ev.op = "execute" /\ ev.kind = "raise") => ev.val \in Targets

\* thread t records a failed invocation of target m in this step
FailStep(t, m) ==
    /\ tpc[t] = "running"
    /\ tpc'[t] = "check"
    /\ tchain[t][ti[t]] = m

\* thread t checks the circuit of target m in this step and goes on to invoke it
PassStep(t, m) ==
    /\ tpc[t] = "check"
    /\ tpc'[t] = "invoke"
    /\ tchain[t][ti[t]] = m

\* thread t checks the circuit of target m in this step and skips the target
SkipStep(t, m) ==
    /\ tpc[t] = "check"
    /\ tpc'[t] = "check"
    /\ ti[t] <= Len(tchain[t])
    /\ ti'[t] = ti[t] + 1
    /\ tchain[t][ti[t]] = m

\* C9: the open/close cycle of every target's circuit.  A failed invocation
\* counts one on top of the failures of the reset window (or starts again at
\* one); the circuit opens in the step whose count reaches failure_threshold,
\* for cooldown_seconds from then; while the cooldown has not elapsed no step
\* closes it and a check reports it open (the target is skipped); it closes
\* only in a check made after the cooldown, which sets the counter to zero
\* and lets the call go on to invoke the target; so a closed circuit opens
\* again only with a counter that climbed, one failure at a time, from zero
\* to failure_threshold.
C9_CircuitCycle ==
    [][\A m \in Targets :
        LET c == Circ(circuits, m)
            n == Circ(circuits', m)
        IN  /\ \A t \in Threads : FailStep(t, m) =>
                  n.failures = (IF fbNow - c.last_failure_time > reset_interval
                                THEN 1 ELSE c.failures + 1)
            /\ n.failures > c.failures =>
                  /\ n.failures = c.failures + 1 \/ n.failures = 1
                  /\ \E t \in Threads : FailStep(t, m)
                  /\ n.failures >= failure_threshold =>
                        (n.is_open /\ n.open_until = fbNow + cooldown_seconds)
            /\ (~c.is_open /\ n.is_open) =>
                  (n.failures >= failure_threshold /\ n.failures > c.failures)
            /\ (c.is_open /\ ~(fbNow > c.open_until)) =>
                  /\ n.is_open
                  /\ \A t \in Threads : ~PassStep(t, m)
            /\ (c.is_open /\ ~n.is_open) =>
                  /\ fbNow > c.open_until
                  /\ n.failures = 0
                  /\ \E t \in Threads : PassStep(t, m)
            /\ (c.is_open /\ fbNow > c.open_until) =>
                  \A t \in Threads : ~SkipStep(t, m)]_vars

\* C9 witness: a call is about to retry a target whose circuit had been
\* opened, was found cooled down by that call's check and now is closed with
\* a counter of zero.
C9_Witness ==
    \E t \in Threads :
        /\ tpc[t] = "invoke"
        /\ Circ(circuits, Candidate(t)).open_until > 0
        /\ fbNow > Circ(circuits, Candidate(t)).open_until
        /\ ~Circ(circuits, Candidate(t)).is_open
        /\ Circ(circuits, Candidate(t)).failures = 0

\* C10 as claimed: the wrapped function is never entered for a target whose
\* circuit is open with its cooldown not elapsed.
C10_Original ==
    [][\A t \in Threads :
        (tpc[t] = "invoke" /\ tpc'[t] = "running") =>
            ~OpenAt(circuits, Candidate(t), fbNow)]_vars

\* C10 amended: a call goes on to invoke a target only from a check of that
\* target's circuit, made under the lock, that found it not open or found its
\* cooldown elapsed (and then closed it); a target whose circuit that check
\* finds open with the cooldown not elapsed is skipped; and the wrapped
\* function is entered only by a call that passed that check.
C10_InvokeOnlyAfterClosedCheck ==
    [][\A t \in Threads :
        /\ (tpc'[t] = "invoke" /\ tpc[t] # "invoke") =>
              /\ tpc[t] = "check"
              /\ ti[t] <= Len(tchain[t])
              /\ ~OpenAt(circuits, tchain[t][ti[t]], fbNow)
              /\ ~Circ(circuits', tchain[t][ti[t]]).is_open
        /\ (tpc[t] = "check" /\ ti[t] <= Len(tchain[t])
                /\ OpenAt(circuits, tchain[t][ti[t]], fbNow)
                /\ tpc'[t] # tpc[t]) => FALSE
        /\ (tpc'[t] = "running" /\ tpc[t] # "running") => tpc[t] = "invoke"]_vars

\* C10 witness: a call skipped its first candidate, whose circuit is open and
\* still cooling down, without having invoked anything yet.
C10_Witness ==
    \E t \in Threads :
        /\ tpc[t] = "check"
        /\ ti[t] = 2
        /\ tlast[t] = NoError
        /\ OpenAt(circuits, tchain[t][1], fbNow)

\* C26: within one call the candidates are taken strictly in list order: the
\* position never moves back and moves one at a time; the wrapped function
\* is entered for the position at hand, and when it comes back the call
\* either returns that candidate's result and ends, or has recorded a
\* failure and moved past the position, so no position is invoked twice and
\* none after the first success; a call ends only by such a return or by
\* raising after the last position.
C26_FallbackOrder ==
    [][\A t \in Threads :
        LET i == ti[t]
        IN  /\ (tpc[t] # "idle" /\ tpc'[t] # "idle") =>
                  /\ tchain'[t] = tchain[t]
                  /\ ti'[t] \in {i, i + 1}
            /\ (tpc'[t] = "running" /\ tpc[t] # "running") =>
                  /\ ti'[t] = i
                  /\ i <= Len(tchain[t])
            /\ (tpc[t] = "running" /\ tpc'[t] # "running") =>
                  \/ /\ tpc'[t] = "idle"
                     /\ ev' = [op |-> "execute", who |-> t, kind |-> "return",
                               val |-> tchain[t][i]]
                  \/ /\ tpc'[t] = "check"
                     /\ ti'[t] = i + 1
            /\ (tpc[t] # "idle" /\ tpc'[t] = "idle") =>
                  \/ tpc[t] = "running"
                  \/ /\ tpc[t] = "check"
                     /\ i > Len(tchain[t])
                     /\ ev'.kind = "raise"]_vars

\* C26 witness: a call whose first candidate failed is inside the wrapped
\* function for its second candidate.
C26_Witness ==
    \E t \in Threads :
        /\ tpc[t] = "running"
        /\ ti[t] = 2
        /\ tlast[t] = tchain[t][1]

\* thread t returns the result of its invocation of target m in this step
SucceedStep(t, m) ==
    /\ tpc[t] = "running"
    /\ tpc'[t] = "idle"
    /\ tchain[t][ti[t]] = m

\* C27 as claimed: a failed invocation sets the target's failure count to
\* the previous count plus 1 when the previous failure was within the reset
\* window and to 1 when it was older, and the count rises by exactly 1 with
\* the failed invocation; the fallback's success returns the fallback's
\* result and leaves the count of the failed target alone.
C27_Original ==
    [][\A t \in Threads, m \in Targets :
        LET c == Circ(circuits, m)
            n == Circ(circuits', m)
        IN  /\ FailStep(t, m) =>
                  /\ n.failures = (IF fbNow - c.last_failure_time > reset_interval
                                   THEN 1 ELSE c.failures + 1)
                  /\ n.failures = c.failures + 1
            /\ SucceedStep(t, m) =>
                  /\ ev'.kind = "return" /\ ev'.val = m
                  /\ \A o \in Targets \ {m} : Circ(circuits', o) = Circ(circuits, o)]_vars

\* C27 amended: a failed invocation sets the target's failure count to the
\* previous count plus 1 when the previous failure was within the reset
\* window and to 1 when it was older, so the count rises by exactly 1 with
\* the failed invocation when the previous failure was within the reset
\* window or the count was 0; the fallback's success returns the fallback's
\* result and leaves the count of the failed target alone.
C27_FailureCounting ==
    [][\A t \in Threads, m \in Targets :
        LET c == Circ(circuits, m)
            n == Circ(circuits', m)
        IN  /\ FailStep(t, m) =>
                  /\ n.failures = (IF fbNow - c.last_failure_time > reset_interval
                                   THEN 1 ELSE c.failures + 1)
                  /\ (fbNow - c.last_failure_time <= reset_interval \/ c.failures = 0) =>
                        n.failures = c.failures + 1
            /\ SucceedStep(t, m) =>
                  /\ ev'.kind = "return" /\ ev'.val = m
                  /\ \A o \in Targets \ {m} : Circ(circuits', o) = Circ(circuits, o)]_vars

\* C27 witness: a call is inside the wrapped function for its fallback after
\* its first candidate failed for the second time within the reset window,
\* which brought that candidate's count to 2.
C27_Witness ==
    \E t \in Threads :
        /\ tpc[t] = "running"
        /\ ti[t] = 2
        /\ tlast[t] = tchain[t][1]
        /\ Circ(circuits, tchain[t][1]).failures = 2
        /\ Circ(circuits, tchain[t][1]).last_failure_time = fbNow

\* C31: a successful invocation lowers the failure counter of its target by
\* exactly one when it is positive and leaves it at zero otherwise; the open
\* flag, the open-until time and the last failure time of that target and
\* the whole circuit of every other target stay as they were.
C31_PartialHealing ==
    [][\A t \in Threads, m \in Targets :
        LET c == Circ(circuits, m)
            n == Circ(circuits', m)
        IN  SucceedStep(t, m) =>
               /\ n.failures = (IF c.failures > 0 THEN c.failures - 1 ELSE 0)
               /\ n.is_open = c.is_open
               /\ n.open_until = c.open_until
               /\ n.last_failure_time = c.last_failure_time
               /\ \A o \in Targets \ {m} : Circ(circuits', o) = Circ(circuits, o)]_vars

\* C31 witness: a call just returned the result of a target whose counter
\* had reached the threshold meanwhile: the counter is down by one, not at
\* zero, and the circuit is still open.
C31_Witness ==
    /\ ev.op = "execute"
    /\ ev.kind = "return"
    /\ Circ(circuits, ev.val).failures = failure_threshold - 1
    /\ Circ(circuits, ev.val).is_open
    /\ tpc[ev.who] = "idle"

\* C37 as claimed: the failure count of every target is between 0 and
\* failure_threshold, and a circuit is marked open only while its failure
\* count is at least failure_threshold.
C37_Original ==
    \A m \in DOMAIN circuits :
        /\ circuits[m].failures >= 0
        /\ circuits[m].failures <= failure_threshold
        /\ circuits[m].is_open => circuits[m].failures >= failure_threshold

\* C37: the failure count of every target is between 0 and failure_threshold
\* plus the number of the other callers (whose calls may be in flight when
\* the circuit trips); a target whose count is at least failure_threshold is
\* marked open; and a circuit is marked open, or its cooldown set, only by a
\* step that leaves the count at failure_threshold or above.
C37_BreakerState ==
    /\ [](\A m \in DOMAIN circuits :
             /\ circuits[m].failures >= 0
             /\ circuits[m].failures <= failure_threshold + (NumThreads - 1)
             /\ circuits[m].failures >= failure_threshold => circuits[m].is_open)
    /\ [][\A m \in Targets :
             LET c == Circ(circuits, m)
                 n == Circ(circuits', m)
             IN  (n.is_open /\ (~c.is_open \/ n.open_until # c.open_until)) =>
                     n.failures >= failure_threshold]_vars

\* C37 witness: a circuit is open with a count above failure_threshold, after
\* the failure of a call that was in flight when the circuit tripped.
C37_Witness ==
    \E m \in DOMAIN circuits :
        /\ circuits[m].is_open
        /\ circuits[m].failures = failure_threshold + (NumThreads - 1)
        /\ ev.op = "execute"
        /\ tpc[ev.who] = "idle"

\* C32: while the call of thread Hung is blocked inside a wrapped function
\* that never returns, every call another thread has under way goes on
\* checking circuits and recording results, and ends.
C32_HungDoesNotStall ==
    \A t \in Threads \ {Hung} :
        (tpc[Hung] = "running" /\ tpc[t] # "idle") ~> (tpc[t] = "idle")

\* C32 witness: the hung call is inside the wrapped function for a target
\* whose circuit another thread's failures have opened since the hung call
\* checked it, and that other thread's call has ended.
C32_Witness ==
    /\ tpc[Hung] = "running"
    /\ OpenAt(circuits, tchain[Hung][ti[Hung]], fbNow)
    /\ ev.op = "execute"
    /\ ev.who # Hung
    /\ tpc[ev.who] = "idle"

(***************************************************************************)
(* MemoryWatchdog: properties                                              *)
(***************************************************************************)

\* C8: for every polled sample, each callback runs once if the sample crosses
\* its threshold upwards (it is at or above the threshold and the sample
\* polled before it, if any, was below) and not at all otherwise: never more
\* often while the sample is being handled, and exactly that often once the
\* loop has finished with the sample.
C8_EdgeTriggered ==
    \A k \in 1..Len(mwLoops) :
        LET th == mwLoops[k]
            softDue == IF th.softCross THEN 1 ELSE 0
            hardDue == IF th.hardCross THEN 1 ELSE 0
        IN  /\ th.softFired <= softDue
            /\ th.hardFired <= hardDue
            /\ th.pc \in {"hard", "hard_handled", "sleep"} => th.softFired = softDue
            /\ th.pc = "sleep" => th.hardFired = hardDue

\* C21: each watchdog has at most one monitor loop alive at any time, whatever
\* the sequence and interleaving of start() and stop() calls: of the loop
\* threads ever started, at most one has not left _monitor_loop.
C21_SingleMonitorLoop ==
    /\ Cardinality({k \in 1..Len(mwLoops) : mwLoops[k].pc # "exited"}) <= 1
    /\ Cardinality({m \in 1..Len(monitors) : monitors[m].pc # "exited"}) <= 1

\* C34: once a poll has been made and no loop thread is in the middle of one,
\* _soft_limit_triggered is true exactly when the sample polled last was at
\* or above the soft limit and _hard_limit_triggered exactly when it was at
\* or above the hard limit, so that hard_limit_active implies
\* soft_limit_active in get_stats.
C34_FlagsReflectLastSample ==
    (/\ polls > 0
     /\ \A k \in 1..Len(mwLoops) : mwLoops[k].pc \in {"top", "sleep", "exited"}) =>
        /\ softTrig <=> lastSample >= soft_limit
        /\ hardTrig <=> lastSample >= hard_limit
        /\ hardTrig => softTrig

\* C40: a watchdog constructed with enabled=False has no monitor loop, polls
\* nothing and runs neither callback, whatever start() and stop() calls are
\* made on it.
C40_DisabledNeverRuns ==
    ~mwEnabled =>
        /\ mwLoops = <<>>
        /\ polls = 0
        /\ \A k \in 1..Len(mwLoops) :
              mwLoops[k].softFired = 0 /\ mwLoops[k].hardFired = 0

\* C28: from_config with auto-adjust on, on a system whose total RAM is below
\* the low-RAM cutoff, gives soft and hard thresholds at least as high as
\* the configured base thresholds; at or above the cutoff, or with
\* auto-adjust off, it gives the configured base thresholds.
C28_AutoAdjust ==
    made # Absent =>
        LET base_soft == IF yaml.found THEN ConfigGet(yaml.soft_limit_percent, 75) ELSE 75
            base_hard == IF yaml.found THEN ConfigGet(yaml.hard_limit_percent, 90) ELSE 90
            low == /\ ConfigGet(yaml.auto_adjust, TRUE)
                   /\ total_ram_gb < ConfigGet(yaml.low_ram_threshold_gb, 8)
        IN  IF low
            THEN made[1].soft_limit >= base_soft /\ made[1].hard_limit >= base_hard
            ELSE made[1].soft_limit = base_soft /\ made[1].hard_limit = base_hard

(***************************************************************************)
(* WorkerWatchdog: properties                                              *)
(***************************************************************************)

\* the monitor thread m runs _handle_timeout in this step
HandleStep(m) == monitors[m].pc = "handle" /\ monitors'[m].pc = "scan"

\* C6: whenever the monitor handles a worker it found active and timed out,
\* that worker is afterwards in the table as ZOMBIE, and the table has gained
\* exactly one id, the replacement, in state IDLE.
C6_TimeoutReplaces ==
    [][\A m \in 1..Len(monitors) :
          HandleStep(m) =>
              LET id == monitors[m].cur[1]
                  gained == DictKeys(workers') \ DictKeys(workers)
              IN  /\ DictHas(workers', id)
                  /\ objs'[DictGet(workers', id)].status = ZOMBIE
                  /\ Cardinality(gained) = 1
                  /\ \A new \in gained : objs'[DictGet(workers', new)].status = IDLE]_vars

\* the state of the worker tracked under id in the table w with the objects o,
\* "removed" when the id is not tracked
StateOf(w, o, id) == IF DictHas(w, id) THEN o[DictGet(w, id)].status ELSE "removed"

\* the edges of the worker state machine
WorkerEdges ==
    {<<IDLE, ACTIVE>>, <<ACTIVE, IDLE>>, <<ACTIVE, ZOMBIE>>,
     <<ZOMBIE, TERMINATED>>, <<TERMINATED, "removed">>}

\* C15: whenever the state of a tracked worker changes in a step, the change
\* is one of IDLE->ACTIVE, ACTIVE->IDLE, ACTIVE->ZOMBIE, ZOMBIE->TERMINATED,
\* TERMINATED->removed.
C15_WorkerStateMachine ==
    [][\A id \in DictKeys(workers) :
          \/ StateOf(workers', objs', id) = StateOf(workers, objs, id)
          \/ <<StateOf(workers, objs, id), StateOf(workers', objs', id)>> \in WorkerEdges]_vars

\* C16: no step, so no start_task, makes a worker that is ZOMBIE or TERMINATED
\* ACTIVE or gives it another task.
C16_ZombieNotAssigned ==
    [][\A id \in DictKeys(workers) :
          LET s == DictGet(workers, id)
          IN  (/\ objs[s].status \in {ZOMBIE, TERMINATED}
               /\ DictHas(workers', id)
               /\ DictGet(workers', id) = s) =>
                  /\ objs'[s].status # ACTIVE
                  /\ objs'[s].current_task \in {objs[s].current_task, NoTask}]_vars

\* C17: the table never holds more than max_workers workers, and once it
\* holds max_workers no step adds one.
C17_WorkerBound ==
    /\ [](Len(workers) <= max_workers)
    /\ [][Len(workers) >= max_workers =>
             DictKeys(workers') \subseteq DictKeys(workers)]_vars

\* the monitor thread m finds the worker at the head of its snapshot timed out
SelectStep(m) == monitors[m].pc = "scan" /\ monitors'[m].pc = "handle"

C33_TimeoutFrame ==
    [][\A m \in 1..Len(monitors) :
          HandleStep(m) =>
              LET s == monitors[m].cur[2]
              IN  /\ s \in DOMAIN objs' => objs'[s] = [objs[s] EXCEPT !.status = ZOMBIE]
                  /\ \A i \in 1..Len(workers) :
                        /\ i <= Len(workers')
                        /\ workers'[i] = workers[i]
                        /\ workers[i][2] # s => objs'[workers[i][2]] = objs[workers[i][2]]
                  /\ DictKeys(workers') \ DictKeys(workers)
                        \subseteq {ReplacementId(monitors[m].cur[1], wwNow)}]_vars

\* C33 witness: a replacement is tracked next to the worker it replaces, and
\* that worker is ZOMBIE and still carries its task, its start time and the
\* budget of the task.
C33_Witness ==
    \E id \in BaseIds, t \in 0..WWMaxTime :
        /\ DictHas(workers, ReplacementId(id, t))
        /\ DictHas(workers, id)
        /\ LET wk == objs[DictGet(workers, id)]
           IN  /\ wk.status = ZOMBIE
               /\ wk.current_task # NoTask
               /\ wk.started_at # NoTime
               /\ wk.timeout_seconds = tts_timeout
               /\ wk.last_heartbeat > wk.started_at

\* C36: a tracked worker that is IDLE or TERMINATED, the two states
\* complete_task leaves a worker in until its next start_task, is not made
\* ZOMBIE by any step.  (A record is IDLE either fresh from register_worker
\* or after complete_task, and the monitor only ever selects records it saw
\* ACTIVE, so the step it forbids is one on a completed worker.)
C36_NoZombieAfterCompletion ==
    [][\A id \in DictKeys(workers) :
          StateOf(workers, objs, id) \in {IDLE, TERMINATED} =>
              StateOf(workers', objs', id) # ZOMBIE]_vars

\* C38: no step, so no cleanup that fires, removes a worker that is IDLE or
\* ACTIVE at that moment.
C38_OnlyTerminatedRemoved ==
    [][\A id \in DictKeys(workers) :
          StateOf(workers, objs, id) \in {IDLE, ACTIVE} => DictHas(workers', id)]_vars

\* C19: when a ZOMBIE worker becomes TERMINATED (complete_task), its removal
\* is due zombie_cleanup_delay later; as long as a removal scheduled for a
\* worker is not yet due the worker is tracked; and a worker whose removal is
\* scheduled is eventually not tracked any more (for removals due within the
\* time the model covers).
C19_LateCompletion ==
    /\ [][\A id \in DictKeys(workers) :
             (/\ StateOf(workers, objs, id) = ZOMBIE
              /\ StateOf(workers', objs', id) = TERMINATED) =>
                 [id |-> id, due |-> wwNow + zombie_cleanup_delay] \in timers']_vars
    /\ [](\A tm \in timers : wwNow < tm.due => DictHas(workers, tm.id))
    /\ \A due \in 1..WWLiveMaxTime :
          ([id |-> <<"w1">>, due |-> due] \in timers) ~> ~DictHas(workers, <<"w1">>)

\* C20: health_check reports ok while the zombie count is at most 2, degraded
\* once it exceeds 2 and error once it exceeds 5.
C20_HealthStatus ==
    ev.op = "health_check" =>
        LET zombies == CountStatus(workers, objs, ZOMBIE)
        IN  ev.status = IF zombies > 5 THEN "error"
                        ELSE IF zombies > 2 THEN "degraded"
                        ELSE "ok"

(***************************************************************************)
(* TaskQueue: properties                                                   *)
(***************************************************************************)

\* a step in which get_next_task returned an item (only a pop shortens the queue)
PopStep ==
    /\ ev'.op = "get"
    /\ ev'.ret # <<>>
    /\ Len(queue') = Len(queue) - 1

\* C1: the item get_next_task returns was queued, and no item left in the
\* queue has a (priority, timestamp) pair smaller than the returned item's,
\* with the priorities the items hold after the starvation sweep of that call.
C1_DequeueOrder ==
    [][PopStep =>
        LET x == ev'.ret[1]
        IN  /\ \E i \in 1..Len(queue) :
                   /\ queue[i].task_id = x.task_id
                   /\ queue[i].timestamp = x.timestamp
            /\ \A j \in 1..Len(queue') : ~ItemLt(queue'[j], x)]_vars

\* C1 witness: an item was returned ahead of two items still queued, one of
\* them submitted before it and of strictly lower precedence.
C1_Witness ==
    /\ ev.op = "get"
    /\ ev.ret # <<>>
    /\ Len(queue) >= 2
    /\ \E i \in 1..Len(queue) :
           /\ queue[i].task_id < ev.ret[1].task_id
           /\ ItemLt(ev.ret[1], queue[i])

\* C2: the number of queued items never exceeds max_size.
C2_CapacityBound == Len(queue) <= max_size

\* C2 witness: a submit was turned away from a queue holding max_size items
\* while a consumer is inside get_next_task.
C2_Witness ==
    /\ ev.op = "submit"
    /\ ev.ret = FALSE
    /\ Len(queue) = max_size
    /\ \E c \in Consumers : cpc[c] = "woken"

\* C7: get_next_task returns None only when the caller gave a timeout and that
\* timeout has elapsed (ev.arg = <<deadline, time of return>>).
C7_NoneOnlyAfterTimeout ==
    (ev.op = "get" /\ ev.ret = <<>>) =>
        (ev.arg[1] # NoDeadline /\ ev.arg[2] >= ev.arg[1])

\* a step in which submit ran to its return
SubmitStep == nextId' = nextId + 1

\* the items of a queue, as a set
Queued(q) == {q[i] : i \in 1..Len(q)}

\* C11: submit returns False exactly when the queue already holds max_size
\* items and the submitted priority is NORMAL/LOW or no queued item is
\* NORMAL/LOW; a rejected submit leaves the queue as it was; below capacity
\* submit adds the new task to the queue and returns True.
C11_Admission ==
    [][SubmitStep =>
        LET p == ev'.arg
            atCapacity == Len(queue) >= max_size
            noVictim == \A x \in Queued(queue) : x.priority <= HIGH
        IN  /\ ev'.ret = FALSE <=> (atCapacity /\ (p > HIGH \/ noVictim))
            /\ ev'.ret = FALSE => queue' = queue
            /\ ~atCapacity =>
                  /\ ev'.ret = TRUE
                  /\ Len(queue') = Len(queue) + 1
                  /\ Queued(queue) \subseteq Queued(queue')
                  /\ \E x \in Queued(queue') :
                        x.task_id = nextId /\ x.priority = p]_vars

\* C11 witness: a CRITICAL task was turned away from a full queue that holds
\* nothing below HIGH.
C11_Witness ==
    /\ ev.op = "submit"
    /\ ev.ret = FALSE
    /\ ev.arg = CRITICAL
    /\ Len(queue) = max_size
    /\ \A x \in Queued(queue) : x.priority <= HIGH

\* C12: a CRITICAL/HIGH submit to a full queue that holds a NORMAL/LOW item
\* removes exactly one queued item, one of the highest priority ordinal and,
\* among the items of that ordinal, of the latest timestamp; every other item
\* stays, the new task is queued and the size is max_size again.
C12_EvictionVictim ==
    [][(/\ SubmitStep
        /\ Len(queue) >= max_size
        /\ ev'.arg <= HIGH
        /\ \E x \in Queued(queue) : x.priority > HIGH) =>
        LET gone == Queued(queue) \ Queued(queue')
        IN  /\ ev'.ret = TRUE
            /\ Cardinality(gone) = 1
            /\ \A v \in gone : \A x \in Queued(queue) :
                  /\ x.priority <= v.priority
                  /\ x.priority = v.priority => x.timestamp <= v.timestamp
            /\ \E x \in Queued(queue') :
                  x.task_id = nextId /\ x.priority = ev'.arg
            /\ Len(queue') = max_size]_vars

\* C12 witness: a CRITICAL/HIGH task was accepted by a full queue, and of the
\* items that were candidates for eviction an older LOW one is still queued.
C12_Witness ==
    /\ ev.op = "submit"
    /\ ev.full
    /\ ev.ret = TRUE
    /\ ev.arg <= HIGH
    /\ \E x \in Queued(queue) : x.priority = LOW /\ x.timestamp < tqNow

\* the NORMAL/LOW items of q that are older than the starvation threshold
Starved(q, now) ==
    {x \in Queued(q) : x.priority > HIGH /\ now - x.created_at > starvation_threshold}

\* C13: a get_next_task that pops first promotes every queued NORMAL/LOW item
\* older than the starvation threshold to HIGH and changes nothing else
\* (timestamps stay); if there is such an item, the returned item is not a
\* NORMAL/LOW one; and a returned HIGH item has the earliest timestamp of the
\* HIGH items, so promoted items leave in the order of their timestamps.
C13_StarvationBoost ==
    [][PopStep =>
        LET r == ev'.ret[1]
            starved == Starved(queue, tqNow)
            expected == {IF x \in starved THEN [x EXCEPT !.priority = HIGH] ELSE x :
                            x \in Queued(queue)}
        IN  /\ Queued(queue') \cup {r} = expected
            /\ starved # {} => r.priority <= HIGH
            /\ r.priority = HIGH =>
                  \A y \in Queued(queue') :
                      y.priority = HIGH => r.timestamp <= y.timestamp]_vars

\* C13 witness: the returned task was promoted by the sweep of its call,
\* another promoted task with a later timestamp and a NORMAL/LOW task too
\* young to be promoted are still queued.
C13_Witness ==
    /\ ev.op = "get"
    /\ ev.ret # <<>>
    /\ ev.ret[1].task_id \in ev.boosted
    /\ \E y \in Queued(queue) :
          y.task_id \in ev.boosted /\ y.timestamp > ev.ret[1].timestamp
    /\ \E y \in Queued(queue) : y.priority > HIGH

\* the ids of the tasks in a queue
Ids(q) == {q[i].task_id : i \in 1..Len(q)}

\* C35: every accepted task is queued once until it leaves the queue, and it
\* leaves the queue either in the get_next_task call that returns it or as
\* the one victim of a submit that found the queue full.  The queued ids are
\* ids given out by earlier submits and are pairwise different; a step adds
\* at most the id of the submit it accepts and removes at most one id; a
\* removed id is the one the step's get_next_task returns or the victim of
\* the step's accepted submit to a full queue; and a get_next_task that
\* returns a task removes that task.  So a returned or evicted id never
\* comes back, and nothing is returned twice.
C35_TaskConservation ==
    /\ [](/\ \A id \in Ids(queue) : id < nextId
          /\ Cardinality(Ids(queue)) = Len(queue))
    /\ [][LET added == Ids(queue') \ Ids(queue)
              gone == Ids(queue) \ Ids(queue')
              returns == ev'.op = "get" /\ ev'.ret # <<>> /\ ev' # ev
          IN  /\ added \subseteq {nextId}
              /\ added # {} => SubmitStep /\ ev'.ret = TRUE
              /\ SubmitStep /\ ev'.ret = TRUE => added = {nextId}
              /\ Cardinality(gone) <= 1
              /\ returns => gone = {ev'.ret[1].task_id}
              /\ gone # {} /\ ~returns =>
                    SubmitStep /\ ev'.ret = TRUE /\ ev'.full /\ ev'.arg <= HIGH
              /\ SubmitStep /\ ev'.ret = TRUE /\ ev'.full => Cardinality(gone) = 1]_vars

\* C35 witness: a consumer that had waited got a task while the other
\* consumer is between its wait and its pop; all ids have been given out,
\* one of them is queued, one was returned just now and the others are not
\* queued any more.
C35_Witness ==
    /\ ev.op = "get"
    /\ ev.ret # <<>>
    /\ ev.arg[1] # NoDeadline
    /\ \E c \in Consumers : cpc[c] = "woken"
    /\ nextId = MaxSubmits
    /\ Cardinality(Ids(queue)) = 1
    /\ ev.ret[1].task_id \notin Ids(queue)

\* C39: the priority of a task changes only in the sweep of a get_next_task,
\* and only from NORMAL/LOW to HIGH, whether the task stays queued or is the
\* one returned; so a promoted task is HIGH, and stays HIGH, as long as it is
\* queued.  No task that is HIGH (promoted or submitted so) leaves the queue
\* in a submit, and when a task that is not CRITICAL is returned no CRITICAL
\* task is left in the queue.
C39_PromotionCapsAtHigh ==
    [][LET returns == ev'.op = "get" /\ ev'.ret # <<>> /\ ev' # ev
           after == Queued(queue') \cup (IF returns THEN {ev'.ret[1]} ELSE {})
       IN  /\ \A x \in Queued(queue), y \in after :
                 x.task_id = y.task_id =>
                     \/ y.priority = x.priority
                     \/ returns /\ x.priority > HIGH /\ y.priority = HIGH
           /\ SubmitStep =>
                 \A x \in Queued(queue) :
                     x.priority <= HIGH => x.task_id \in Ids(queue')
           /\ (returns /\ ev'.ret[1].priority # CRITICAL) =>
                 \A y \in Queued(queue') : y.priority # CRITICAL]_vars

\* C39 witness: a get_next_task promoted a task and returned a CRITICAL task
\* submitted after it; the promoted task is queued as HIGH in a queue that is
\* full but for the place of the returned task.
C39_Witness ==
    /\ ev.op = "get"
    /\ ev.ret # <<>>
    /\ ev.ret[1].priority = CRITICAL
    /\ Len(queue) = max_size - 1
    /\ \E y \in Queued(queue) :
          /\ y.task_id \in ev.boosted
          /\ y.priority = HIGH
          /\ y.task_id < ev.ret[1].task_id

\* C14: every NORMAL or LOW task that submit accepted is eventually returned
\* by get_next_task, given a consumer that keeps calling it.
C14_AcceptedLowTaskReturned ==
    \A k \in 0..(MaxSubmits - 1) :
        (ev.op = "submit" /\ ev.who = k /\ ev.ret = TRUE /\ ev.arg > HIGH)
            ~> (ev.op = "get" /\ ev.ret # <<>> /\ ev.ret[1].task_id = k)

====
